---------------------------- MODULE Spec2Model ----------------------------
(***************************************************************************)
(* State-machine model of the agent-swarm orchestration engine:            *)
(*   - SubagentRuntime     (backend/core/subagent.py)                      *)
(*   - RelayStationCoordinator (backend/core/relay_station.py)             *)
(*   - MasterAgent         (backend/core/master_agent.py)                  *)
(*   - DirectAgent         (backend/core/direct_agent.py)                  *)
(*   - the SSE route's persist_and_broadcast (backend/api/routes.py)       *)
(*                                                                         *)
(* asyncio runs one coroutine at a time and switches only at an await      *)
(* that really suspends.  A worker's program counter (wpc) is therefore    *)
(* either a suspension point ("pending", "llm", "skill", "sleep", "done")  *)
(* or an internal position ("loop", "check") at which no other coroutine   *)
(* can run; every other action is guarded by ~Busy.                        *)
(***************************************************************************)
EXTENDS Integers, Sequences, FiniteSets, TLC

VARIABLES
    \* ---- SubagentRuntime, one entry per worker id ----
    status,                    \* state.status
    iterations,                \* state.iterations (= local `iteration`)
    max_iterations,            \* config.max_iterations
    paused,                    \* _paused
    cancelled,                 \* _cancelled
    pending_acknowledgements,  \* _pending_acknowledgements (list of message ids)
    relay_inbox,               \* relay_inbox (queue of message ids)
    messages,                  \* messages: the LLM context log
    full_response,             \* last final text produced by the LLM
    final_result,              \* state.final_result
    error,                     \* state.error
    relay_messages_received,   \* state.relay_messages_received (message ids)
    wpc,                       \* position of the run_stream task
    tool_round,                \* tool_round of _stream_iteration_with_tools
    emit_count,                \* number of events run_stream has yielded
    \* ---- RelayStationCoordinator ----
    msgs,                      \* the RelayMessage objects, by id
    agent_callbacks,           \* registered ids, in registration order
    agent_intervention_handlers,
    stations,                  \* station objects, in creation order
    active_station_id,         \* 0 stands for None
    message_history,
    intervention_history,
    broadcast_tasks,           \* tasks created by on_relay_request, not yet run
    broadcast_log,             \* history: one record per broadcast_message call
    \* ---- MasterAgent ----
    active_subagents,
    pending_relay_events,
    priority_queue,
    normal_queue,
    priority_wait,             \* the task priority_queue.get() of the merge loop
    normal_wait,               \* the task normal_queue.get() of the merge loop
    done,                      \* `done` of asyncio.wait, not yet iterated
    completed_count,
    batch_count,
    plan,                      \* session.plan is set
    master_status,             \* TaskSession.status
    session_status,            \* status of the stored session (session_manager)
    stream,                    \* the events execute_task has yielded, in order
    mode,                      \* "emergent" or "direct" once a run has started
    mpc,                       \* position of the execute_task generator
    mbusy,                     \* execute_task is running between two suspensions
    tools_left,                \* tool calls the LLM may still ask for (bound)
    calls_left,                \* intervention calls the operator may still make (bound)
    sleeps_left,               \* wake-ups of a still paused worker left (bound)
    \* ---- SessionManager: the subscribers of the session ----
    subscribers,               \* _subscribers[session_id]: the queues, in order
    \* ---- SessionManager: its directory of sessions ----
    sessions,                  \* _sessions: the SessionInfo of each session id
    agents,                    \* _agents: the orchestrator of each session id (0: none)
    instances,                 \* the orchestrator objects, in creation order
    db,                        \* the repository's session records
    session_subscribers,       \* _subscribers, by session id
    running,                   \* the orchestrator a request's run executes on (0: no run)
    \* ---- the route execute_task_stream of one session ----
    emitted,                   \* number of events taken from execute_task
    current_event,             \* the event persist_and_broadcast is working on
    persisted,                 \* events whose _do_persist has returned
    persist_tasks,             \* events whose _do_persist task is not yet run
    received,                  \* history: the events each subscriber's client took
    rpc,                       \* position of the route's event loop
    \* ---- DirectAgent ----
    conversation_history,      \* conversation_history: role and length of each message
    turns,                     \* the calls of execute_task in progress on one DirectAgent
    \* ---- RelayStationCoordinator: the callback objects it holds ----
    registrations,             \* register_agent calls made for each id
    registered_callback,       \* agent_callbacks[id], by the number of the call that supplied it (0: none)
    registered_handler,        \* agent_intervention_handlers[id], likewise
    callbacks_called,          \* history: the callbacks the latest broadcast called
    \* ---- the route POST /intervention ----
    request,                   \* the InterventionRequest being answered
    http_response,             \* the status code and the orchestrator method called
    \* ---- history ----
    last_broadcast,            \* the latest broadcast_event call: its event and
                               \* the subscribers whose put_nowait raised
    last_call,                 \* the latest call of the intervention interface
                               \* and its effects in program order
    ack_text_since             \* the worker produced a text with an acknowledgement
                               \* phrase after its last acknowledgement-required
                               \* delivery

workerVars == <<status, iterations, max_iterations, paused, cancelled,
                pending_acknowledgements, relay_inbox, messages, full_response,
                final_result, error, relay_messages_received, wpc, tool_round,
                emit_count, tools_left>>
relayVars == <<msgs, agent_callbacks, agent_intervention_handlers, stations,
               active_station_id, message_history, intervention_history,
               broadcast_tasks, broadcast_log>>
queueVars == <<priority_queue, normal_queue, priority_wait, normal_wait>>
masterVars == <<active_subagents, pending_relay_events>>
boundVars == <<calls_left, sleeps_left>>
execVars == <<done, completed_count, batch_count, plan, master_status,
              session_status, stream, mode, mpc, mbusy>>
managerVars == <<sessions, agents, instances, db, session_subscribers, running>>
routeVars == <<emitted, current_event, persisted, persist_tasks, received, rpc>>
directVars == <<conversation_history, turns>>
registryVars == <<registrations, registered_callback, registered_handler,
                  callbacks_called>>
httpVars == <<request, http_response>>
sessionVars == <<subscribers, last_broadcast, managerVars, routeVars, directVars,
                 registryVars, httpVars>>
runVars == <<execVars, sessionVars, last_call>>
vars == <<workerVars, relayVars, queueVars, masterVars, boundVars, runVars,
          ack_text_since>>

-----------------------------------------------------------------------------
\* Bounds of the model
MaxMsgs == 2          \* relay messages created in one behaviour
MaxToolCalls == 1     \* tool calls the LLM asks for in one behaviour
MaxSleeps == 1        \* times a paused worker wakes up and finds itself still paused
MaxCalls == 2         \* calls of the master and coordinator interface in one behaviour
WorkerMaxIter == 3    \* config.max_iterations used for the single-worker runs
HumanMaxIter == 2     \* config.max_iterations of the first worker of the intervention runs
MasterMaxIter == 1    \* config.max_iterations of the first worker of a master run
RelayMaxIter == 2     \* config.max_iterations of the workers of the relay runs
MaxStations == 3      \* stations created on one coordinator
MaxSubscribers == 3   \* queues subscribed to the session at one time
QueueMaxSize == 2     \* maxsize of a subscriber's queue (100 in the program)
MaxBroadcasts == 3    \* broadcast_event calls in one behaviour
MaxTargets == 2       \* length of an explicit target list
MaxRegistrations == 2 \* register_agent calls for one id
MaxEmitted == 3       \* events execute_task yields to the route in one behaviour
RouteSubscribers == 2 \* queues subscribed while the route runs
MaxInstances == 3     \* orchestrator objects created in one behaviour
MaxClients == 1       \* queues subscribed to one session of the directory
MaxInterventions == 1 \* interventions broadcast on one orchestrator

\* Program constants
AlignmentImportance == 9  \* importance=0.9 of request_alignment
CheckpointImportance == 7 \* importance=0.7 of checkpoint
HighPriority == 7         \* priority >= 7
HighImportance == 8       \* importance >= 0.8 (importances are in tenths)
AdjustImportance == 9     \* max(importance, 0.9)
TriggerImportance == 8    \* importance=0.8 of a self-triggered relay
LenientIterations == 3    \* state.iterations >= 3
SubstantialLen == 800     \* len(response) > 800
CompleteLen == 500        \* len(response) > 500
LowCount == 2             \* total_count <= 2
MaxToolRounds == 3        \* max_tool_rounds
PausePriority == 7
ResumePriority == 6
CancelPriority == 8
AdjustPriority == 6
DefaultPriority == 5         \* priority: int = 5
MaxBatch == 10               \* max_batch

Agents == {"w1", "w2", "w3"}
AgentOrder == <<"w1", "w2", "w3">>
NoText == [marker |-> FALSE, ack |-> FALSE, concl |-> FALSE, len |-> 0, relay |-> FALSE]
NoResult == <<"none", NoText>>

\* The texts an LLM may answer with, by the features the code looks at:
\* a strict completion marker, an acknowledgement phrase, a conclusion cue,
\* the length, and a relay trigger tag.
Text(marker, ack, concl, len, relay) ==
    [marker |-> marker, ack |-> ack, concl |-> concl, len |-> len, relay |-> relay]

-----------------------------------------------------------------------------
\* Generic helpers
Min(a, b) == IF a < b THEN a ELSE b
Max(a, b) == IF a > b THEN a ELSE b

InSeq(x, s) == \E i \in 1..Len(s) : s[i] = x

\* list.sort(key=lambda m: m.importance, reverse=True): stable, descending
RECURSIVE InsertByImportance(_, _, _)
InsertByImportance(m, s, heap) ==
    IF s = <<>> THEN <<m>>
    ELSE IF heap[Head(s)].importance >= heap[m].importance
         THEN <<Head(s)>> \o InsertByImportance(m, Tail(s), heap)
         ELSE <<m>> \o s

RECURSIVE SortByImportance(_, _)
SortByImportance(s, heap) ==
    IF s = <<>> THEN <<>>
    ELSE LET rest == SortByImportance(SubSeq(s, 1, Len(s) - 1), heap)
         IN  InsertByImportance(s[Len(s)], rest, heap)

-----------------------------------------------------------------------------
\* SubagentRuntime: pure helpers

IsIntervention(m) == msgs[m].type = "human_intervention"

\* Events that run_subagent_with_events routes to the priority queue
PRIORITY_EVENT_TYPES == {"status", "error", "result"}

\* An event dictionary yielded by run_stream, tagged by
\* run_subagent_with_events with the agent id; n is its position among the
\* events of that worker.
Event(w, type, st, k) ==
    [type |-> type, agent |-> w, status |-> st, n |-> emit_count[w] + k]

\* _check_pending_relay_messages: the summary of the queue (peeked, order
\* kept) and of the pending-ack list
PendingSummary(w) ==
    LET q == relay_inbox[w]
        idx == 1..Len(q)
        ivs == SelectSeq(q, IsIntervention)
    IN  [total_count |-> Len(q),
         intervention_count |-> Len(ivs),
         high_priority_count |->
             Cardinality({i \in idx : IsIntervention(q[i])
                                       /\ msgs[q[i]].priority >= HighPriority})
             + Cardinality({i \in idx : msgs[q[i]].importance >= HighImportance}),
         unacknowledged_count |-> Len(pending_acknowledgements[w]),
         interventions |-> [i \in 1..Len(ivs) |-> msgs[ivs[i]].itype],
         requires_response |->
             \E i \in idx : IsIntervention(q[i])
                              /\ msgs[q[i]].priority >= HighPriority]

HasPending(w) ==
    \/ PendingSummary(w).total_count > 0
    \/ PendingSummary(w).unacknowledged_count > 0

\* Variants of the completion decision used to test the properties below
CanComplete_AckFirst(response, pending_summary) ==
    IF response.ack THEN TRUE
    ELSE IF pending_summary.high_priority_count > 0 THEN FALSE
    ELSE IF pending_summary.unacknowledged_count > 0 THEN FALSE
    ELSE IF pending_summary.requires_response THEN FALSE
    ELSE IF \E i \in 1..Len(pending_summary.interventions) :
                pending_summary.interventions[i] \in {"inject", "adjust"}
         THEN FALSE
    ELSE /\ pending_summary.intervention_count = 0
         /\ pending_summary.total_count <= LowCount
         /\ response.len > CompleteLen

CanComplete_NoAckRule(response, pending_summary) ==
    IF pending_summary.high_priority_count > 0 THEN FALSE
    ELSE IF pending_summary.unacknowledged_count > 0 THEN FALSE
    ELSE IF pending_summary.requires_response THEN FALSE
    ELSE IF \E i \in 1..Len(pending_summary.interventions) :
                pending_summary.interventions[i] \in {"inject", "adjust"}
         THEN FALSE
    ELSE /\ pending_summary.intervention_count = 0
         /\ pending_summary.total_count <= LowCount
         /\ response.len > CompleteLen

CanComplete_AnyLength(response, pending_summary) ==
    IF pending_summary.high_priority_count > 0 THEN FALSE
    ELSE IF pending_summary.unacknowledged_count > 0 THEN FALSE
    ELSE IF pending_summary.requires_response THEN FALSE
    ELSE IF \E i \in 1..Len(pending_summary.interventions) :
                pending_summary.interventions[i] \in {"inject", "adjust"}
         THEN FALSE
    ELSE IF response.ack THEN TRUE
    ELSE /\ pending_summary.intervention_count = 0
         /\ pending_summary.total_count <= LowCount

\* _can_complete_with_pending_messages
CanCompleteWithPendingMessages(response, pending_summary) ==
    IF pending_summary.high_priority_count > 0 THEN FALSE
    ELSE IF pending_summary.unacknowledged_count > 0 THEN FALSE
    ELSE IF pending_summary.requires_response THEN FALSE
    ELSE IF \E i \in 1..Len(pending_summary.interventions) :
                pending_summary.interventions[i] \in {"inject", "adjust"}
         THEN FALSE
    ELSE IF response.ack THEN TRUE
    ELSE IF /\ pending_summary.intervention_count = 0
            /\ pending_summary.total_count <= LowCount
            /\ response.len > CompleteLen
         THEN TRUE
    ELSE FALSE

\* _is_task_complete
IsTaskComplete(w, response) ==
    IF HasPending(w) /\ ~CanCompleteWithPendingMessages(response, PendingSummary(w))
    THEN FALSE
    ELSE IF response.marker THEN TRUE
    ELSE IF iterations[w] >= LenientIterations
         THEN response.concl /\ response.len > SubstantialLen
         ELSE FALSE

\* _extract_final_result: the text from the marker on, or the whole text
ExtractFinalResult(response) ==
    IF response.marker THEN <<"from_marker", response>> ELSE <<"whole", response>>

\* _process_relay_inbox: the prompts appended to the log, interventions
\* first (by descending importance), then the regular messages in order
ProcessedPrompts(w) ==
    LET q == relay_inbox[w]
        ivs == SortByImportance(SelectSeq(q, IsIntervention), msgs)
        regs == SelectSeq(q, LAMBDA m : ~IsIntervention(m))
    IN  [i \in 1..Len(ivs) |-> <<"intervention", ivs[i]>>]
        \o [i \in 1..Len(regs) |-> <<"relay", regs[i]>>]

IsPriorityEvent(e) == e.type \in PRIORITY_EVENT_TYPES
IsNormalEvent(e) == e.type \notin PRIORITY_EVENT_TYPES

\* run_subagent_with_events: every yielded event goes to one of the queues
\* A waiting Queue.get() task is woken by the put and takes the head of its
\* queue before the merge loop runs again.
Idle == [st |-> "idle"]
Waiting == [st |-> "waiting"]
Got(e) == [st |-> "done", item |-> e]
Put_Front(q, evs) == evs \o q
\* queue.put of each event, in order
Put(q, evs) == q \o evs
Emit(w, evs) ==
    LET pq == Put(priority_queue, SelectSeq(evs, IsPriorityEvent))
        nq == Put(normal_queue, SelectSeq(evs, IsNormalEvent))
        pget == priority_wait = Waiting /\ pq # <<>>
        nget == normal_wait = Waiting /\ nq # <<>>
    IN  /\ priority_queue' = IF pget THEN Tail(pq) ELSE pq
        /\ priority_wait' = IF pget THEN Got(Head(pq)) ELSE priority_wait
        /\ normal_queue' = IF nget THEN Tail(nq) ELSE nq
        /\ normal_wait' = IF nget THEN Got(Head(nq)) ELSE normal_wait
        /\ emit_count' = [emit_count EXCEPT ![w] = @ + Len(evs)]

\* A worker, or execute_task, is in the middle of a run of code that cannot
\* be interleaved
WorkerBusy == \E w \in Agents : wpc[w] \in {"loop", "check"}
Busy == WorkerBusy \/ mbusy

-----------------------------------------------------------------------------
\* SubagentRuntime.run_stream

\* Task start up to the while condition: status RUNNING, _init_messages
RunStreamStart(w) ==
    /\ UNCHANGED <<ack_text_since, runVars>>
    /\ ~Busy
    /\ w \in active_subagents
    /\ wpc[w] = "pending"
    /\ status' = [status EXCEPT ![w] = "running"]
    /\ Emit(w, <<Event(w, "status", "running", 1)>>)
    /\ messages' = [messages EXCEPT ![w] = <<<<"system", 0>>, <<"task", 0>>>>]
    /\ wpc' = [wpc EXCEPT ![w] = "loop"]
    /\ UNCHANGED <<iterations, max_iterations, paused, cancelled,
                   pending_acknowledgements, relay_inbox, full_response,
                   final_result, error, relay_messages_received, tool_round,
                   tools_left, relayVars, masterVars, boundVars>>

\* The while condition and the head of an iteration, up to the LLM call;
\* or the fall-through after the loop
LoopTop(w) ==
    /\ UNCHANGED <<ack_text_since, runVars>>
    /\ wpc[w] = "loop"
    /\ IF iterations[w] < max_iterations[w] /\ ~cancelled[w]
       THEN IF paused[w]
            THEN /\ status' = [status EXCEPT ![w] = "paused"]
                 /\ Emit(w, <<Event(w, "status", "paused", 1)>>)
                 /\ wpc' = [wpc EXCEPT ![w] = "sleep"]
                 /\ UNCHANGED <<iterations, relay_inbox, messages, tool_round,
                                full_response>>
            ELSE /\ iterations' = [iterations EXCEPT ![w] = @ + 1]
                 /\ relay_inbox' = [relay_inbox EXCEPT ![w] = <<>>]
                 /\ messages' = [messages EXCEPT ![w] = @ \o ProcessedPrompts(w)]
                 /\ Emit(w, IF relay_inbox[w] # <<>>
                             THEN <<Event(w, "relay_processed", "", 1),
                                    Event(w, "progress", "", 2)>>
                             ELSE <<Event(w, "progress", "", 1)>>)
                 /\ tool_round' = [tool_round EXCEPT ![w] = 0]
                 /\ full_response' = [full_response EXCEPT ![w] = NoText]
                 /\ wpc' = [wpc EXCEPT ![w] = "llm"]
                 /\ UNCHANGED status
       ELSE /\ IF status[w] # "completed"
               THEN /\ status' = [status EXCEPT ![w] = "completed"]
                    /\ Emit(w, <<Event(w, "status", "completed", 1)>>)
               ELSE /\ UNCHANGED <<status, queueVars, emit_count>>
            /\ wpc' = [wpc EXCEPT ![w] = "done"]
            /\ UNCHANGED <<iterations, relay_inbox, messages, tool_round,
                           full_response>>
    /\ UNCHANGED <<max_iterations, paused, cancelled, pending_acknowledgements,
                   final_result, error, relay_messages_received,
                   tools_left, relayVars, masterVars, boundVars>>

\* asyncio.sleep(0.5) of a paused worker returns
SleepWake(w) ==
    /\ UNCHANGED <<ack_text_since, runVars>>
    /\ ~Busy
    /\ wpc[w] = "sleep"
    /\ IF paused[w]
       THEN sleeps_left > 0 /\ sleeps_left' = sleeps_left - 1
       ELSE UNCHANGED sleeps_left
    /\ wpc' = [wpc EXCEPT ![w] = "loop"]
    /\ UNCHANGED <<status, iterations, max_iterations, paused, cancelled,
                   pending_acknowledgements, relay_inbox, messages, full_response,
                   final_result, error, relay_messages_received, tool_round,
                   emit_count, tools_left, relayVars, queueVars, masterVars,
                   calls_left>>

\* _stream_iteration_with_tools: chat_complete returns a tool call
LLMToolCalls(w, content) ==
    /\ UNCHANGED <<ack_text_since, runVars>>
    /\ ~Busy
    /\ wpc[w] = "llm"
    /\ tool_round[w] < MaxToolRounds
    /\ tools_left > 0
    /\ tools_left' = tools_left - 1
    /\ Emit(w, IF content
                THEN <<Event(w, "thinking", "", 1), Event(w, "tool_call_start", "", 2)>>
                ELSE <<Event(w, "tool_call_start", "", 1)>>)
    /\ messages' = [messages EXCEPT ![w] = Append(@, <<"assistant_tool_calls", 0>>)]
    /\ wpc' = [wpc EXCEPT ![w] = "skill"]
    /\ UNCHANGED <<status, iterations, max_iterations, paused, cancelled,
                   pending_acknowledgements, relay_inbox, full_response,
                   final_result, error, relay_messages_received, tool_round,
                   relayVars, masterVars, boundVars>>

\* The skill returns (or raises, which the code turns into a failed result)
SkillReturn(w) ==
    /\ UNCHANGED <<ack_text_since, runVars>>
    /\ ~Busy
    /\ wpc[w] = "skill"
    /\ Emit(w, <<Event(w, "tool_call_result", "", 1)>>)
    /\ messages' = [messages EXCEPT ![w] = Append(@, <<"tool", 0>>)]
    /\ tool_round' = [tool_round EXCEPT ![w] = @ + 1]
    /\ wpc' = [wpc EXCEPT ![w] = "llm"]
    /\ UNCHANGED <<status, iterations, max_iterations, paused, cancelled,
                   pending_acknowledgements, relay_inbox, full_response,
                   final_result, error, relay_messages_received, tools_left,
                   relayVars, masterVars, boundVars>>

\* The final streamed answer: provider.chat yields a chunk, forwarded as a
\* thinking event, and the worker waits for the rest of the stream
LLMChunk(w) ==
    /\ UNCHANGED <<ack_text_since, runVars>>
    /\ ~Busy
    /\ wpc[w] = "llm"
    /\ Emit(w, <<Event(w, "thinking", "", 1)>>)
    /\ wpc' = [wpc EXCEPT ![w] = "stream"]
    /\ UNCHANGED <<status, iterations, max_iterations, paused, cancelled,
                   pending_acknowledgements, relay_inbox, messages, full_response,
                   final_result, error, relay_messages_received, tool_round,
                   tools_left, relayVars, masterVars, boundVars>>

\* The stream ends with the text t: final_content
LLMFinal(w, t) ==
    /\ ack_text_since' = [ack_text_since EXCEPT ![w] = @ \/ t.ack]
    /\ UNCHANGED runVars
    /\ ~Busy
    /\ wpc[w] = "stream"
    /\ t.relay => Len(msgs) < MaxMsgs
    /\ messages' = [messages EXCEPT ![w] = Append(@, <<"assistant", 0>>)]
    /\ full_response' = [full_response EXCEPT ![w] = t]
    /\ wpc' = [wpc EXCEPT ![w] = "check"]
    /\ UNCHANGED <<status, iterations, max_iterations, paused, cancelled,
                   pending_acknowledgements, relay_inbox, final_result, error,
                   relay_messages_received, tool_round, tools_left, emit_count,
                   relayVars, queueVars, masterVars, boundVars>>

\* The status a worker has after the provider raised
FailedStatus_Keep(st) == st

FailedStatus(st) == "failed"

\* The provider raises inside the iteration: except Exception
LLMError(w) ==
    /\ UNCHANGED <<ack_text_since, runVars>>
    /\ ~Busy
    /\ wpc[w] \in {"llm", "stream"}
    /\ error' = [error EXCEPT ![w] = TRUE]
    /\ status' = [status EXCEPT ![w] = FailedStatus(status[w])]
    /\ Emit(w, <<Event(w, "error", "", 1)>>)
    /\ wpc' = [wpc EXCEPT ![w] = "done"]
    /\ UNCHANGED <<iterations, max_iterations, paused, cancelled,
                   pending_acknowledgements, relay_inbox, messages, full_response,
                   final_result, relay_messages_received, tool_round, tools_left,
                   relayVars, masterVars, boundVars>>

\* The task of the worker is cancelled while run_stream is suspended in an
\* await: except asyncio.CancelledError
TaskCancelled(w) ==
    /\ UNCHANGED <<ack_text_since, runVars>>
    /\ ~Busy
    /\ wpc[w] \notin {"pending", "loop", "check", "done"}
    /\ status' = [status EXCEPT ![w] = "cancelled"]
    /\ Emit(w, <<Event(w, "status", "cancelled", 1)>>)
    /\ wpc' = [wpc EXCEPT ![w] = "done"]
    /\ UNCHANGED <<iterations, max_iterations, paused, cancelled,
                   pending_acknowledgements, relay_inbox, messages, full_response,
                   final_result, error, relay_messages_received, tool_round,
                   tools_left, relayVars, masterVars, boundVars>>

\* A relay message built by _check_relay_trigger
TriggeredMessage(w) ==
    [type |-> "discovery", src |-> w, targets |-> <<>>,
     importance |-> TriggerImportance, itype |-> "", priority |-> 0,
     requires_ack |-> FALSE, viewed_by |-> {}]

\* After final_content: the completion decision, the relay trigger and the
\* continuation prompt
CompletionCheck(w) ==
    /\ UNCHANGED <<ack_text_since, runVars>>
    /\ wpc[w] = "check"
    /\ LET t == full_response[w] IN
       IF IsTaskComplete(w, t)
       THEN IF HasPending(w) /\ ~CanCompleteWithPendingMessages(t, PendingSummary(w))
            THEN /\ Emit(w, <<Event(w, "completion_blocked", "", 1)>>)
                 /\ messages' = [messages EXCEPT ![w] = Append(@, <<"pending_prompt", 0>>)]
                 /\ wpc' = [wpc EXCEPT ![w] = "loop"]
                 /\ UNCHANGED <<status, final_result, msgs, broadcast_tasks>>
            ELSE /\ status' = [status EXCEPT ![w] = "completed"]
                 /\ final_result' = [final_result EXCEPT ![w] = ExtractFinalResult(t)]
                 /\ Emit(w, <<Event(w, "status", "completed", 1),
                              Event(w, "result", "", 2)>>)
                 /\ wpc' = [wpc EXCEPT ![w] = "done"]
                 /\ UNCHANGED <<messages, msgs, broadcast_tasks>>
       ELSE /\ IF t.relay
               THEN /\ msgs' = Append(msgs, TriggeredMessage(w))
                    /\ broadcast_tasks' = Append(broadcast_tasks, Len(msgs) + 1)
                    /\ Emit(w, <<Event(w, "relay", "", 1)>>)
               ELSE /\ UNCHANGED <<msgs, broadcast_tasks, queueVars, emit_count>>
            /\ messages' = [messages EXCEPT ![w] =
                   IF iterations[w] < max_iterations[w] - 1
                   THEN Append(@, <<"continuation", IF HasPending(w) THEN 1 ELSE 0>>)
                   ELSE @]
            /\ wpc' = [wpc EXCEPT ![w] = "loop"]
            /\ UNCHANGED <<status, final_result>>
    /\ UNCHANGED <<iterations, max_iterations, paused, cancelled,
                   pending_acknowledgements, relay_inbox, full_response, error,
                   relay_messages_received, tool_round, tools_left,
                   agent_callbacks, agent_intervention_handlers, stations,
                   active_station_id, message_history, intervention_history,
                   broadcast_log, masterVars, boundVars>>

-----------------------------------------------------------------------------
\* Message delivery.  A delivery state carries the variables the two
\* receive callbacks of a worker write.

DeliveryState ==
    [inbox |-> relay_inbox, acks |-> pending_acknowledgements,
     recv |-> relay_messages_received, heap |-> msgs]

\* SubagentRuntime.receive_relay_message
ReceiveRelayMessage(st, w, m) ==
    [st EXCEPT !.heap[m].viewed_by = @ \cup {w},
               !.inbox[w] = Append(@, m),
               !.recv[w] = Append(@, m)]

\* SubagentRuntime.receive_intervention
ReceiveIntervention(st, w, m) ==
    [st EXCEPT !.heap[m].viewed_by = @ \cup {w},
               !.heap[m].importance =
                   IF st.heap[m].itype = "adjust" THEN Max(@, AdjustImportance) ELSE @,
               !.recv[w] = Append(@, m),
               !.acks[w] = IF st.heap[m].requires_ack THEN Append(@, m) ELSE @,
               !.inbox[w] = Append(@, m)]

\* The delivery loop of broadcast_message: the regular callback of every
\* target that is registered
RECURSIVE DeliverMessage(_, _, _)
DeliverMessage(st, targets, m) ==
    IF targets = <<>> THEN st
    ELSE LET a == Head(targets)
             st1 == IF InSeq(a, agent_callbacks)
                    THEN ReceiveRelayMessage(st, a, m) ELSE st
         IN  DeliverMessage(st1, Tail(targets), m)

\* The delivery loop of broadcast_intervention: the intervention handler
\* where one is registered, else the regular callback
RECURSIVE DeliverIntervention(_, _, _)
DeliverIntervention(st, targets, m) ==
    IF targets = <<>> THEN st
    ELSE LET a == Head(targets)
             st1 == IF ~InSeq(a, agent_callbacks) THEN st
                    ELSE IF a \in agent_intervention_handlers
                         THEN ReceiveIntervention(st, a, m)
                         ELSE ReceiveRelayMessage(st, a, m)
         IN  DeliverIntervention(st1, Tail(targets), m)

SetDelivered(st) ==
    /\ relay_inbox' = st.inbox
    /\ pending_acknowledgements' = st.acks
    /\ relay_messages_received' = st.recv
    /\ msgs' = st.heap
    /\ ack_text_since' =
           [w \in Agents |->
               IF Len(st.acks[w]) > Len(pending_acknowledgements[w])
               THEN FALSE ELSE ack_text_since[w]]

-----------------------------------------------------------------------------
\* RelayStationCoordinator

ActiveStations == SelectSeq([i \in 1..Len(stations) |-> i],
                            LAMBDA i : stations[i].is_active)

\* What register_agent and unregister_agent leave alone
RegistryFrame ==
    /\ calls_left > 0
    /\ calls_left' = calls_left - 1
    /\ UNCHANGED <<workerVars, msgs, stations, active_station_id, message_history,
                   intervention_history, broadcast_tasks, broadcast_log,
                   queueVars, masterVars, sleeps_left, runVars, ack_text_since>>

\* register_agent(agent_id, callback, intervention_handler): a dictionary
\* entry per id, a new id at the end of the order
RegisterAgent(w, handler) ==
    /\ ~Busy
    /\ agent_callbacks' = IF InSeq(w, agent_callbacks) THEN agent_callbacks
                          ELSE Append(agent_callbacks, w)
    /\ agent_intervention_handlers' =
           IF handler THEN agent_intervention_handlers \cup {w}
           ELSE agent_intervention_handlers
    /\ RegistryFrame

\* unregister_agent(agent_id)
UnregisterAgent(w) ==
    /\ ~Busy
    /\ agent_callbacks' = SelectSeq(agent_callbacks, LAMBDA a : a # w)
    /\ agent_intervention_handlers' = agent_intervention_handlers \ {w}
    /\ RegistryFrame

\* Target station of broadcast_message: active id, else the first active
\* station, else the last station; 0 when there is none
MessageStation ==
    IF active_station_id # 0 THEN active_station_id
    ELSE IF stations = <<>> THEN 0
    ELSE IF ActiveStations # <<>> THEN Head(ActiveStations)
    ELSE Len(stations)

\* Target station of broadcast_intervention: active id, else the last station
InterventionStation ==
    IF active_station_id # 0 THEN active_station_id
    ELSE IF stations = <<>> THEN 0
    ELSE Len(stations)

AddToStation(sid, m) ==
    IF sid \in 1..Len(stations)
    THEN [stations EXCEPT ![sid].messages = Append(@, m)]
    ELSE stations

MessageTargets_Everyone(m, heap) == agent_callbacks

MessageTargets_WithSender(m, heap) ==
    IF heap[m].targets # <<>> THEN heap[m].targets ELSE agent_callbacks

\* Targets of a message: its list, or every registered id but the sender
MessageTargets(m, heap) ==
    IF heap[m].targets # <<>> THEN heap[m].targets
    ELSE SelectSeq(agent_callbacks, LAMBDA a : a # heap[m].src)

\* broadcast_message(message) for the message object m of the heap `heap`
BroadcastMessage(m, heap) ==
    LET st0 == [DeliveryState EXCEPT !.heap = heap]
        target_ids == MessageTargets(m, heap)
    IN  /\ stations' = AddToStation(MessageStation, m)
        /\ message_history' = Append(message_history, m)
        /\ SetDelivered(DeliverMessage(st0, target_ids, m))
        /\ pending_relay_events' = Append(pending_relay_events, m)
        /\ broadcast_log' = Append(broadcast_log,
               [id |-> m, src |-> heap[m].src, empty |-> heap[m].targets = <<>>,
                targets |-> target_ids, registered |-> agent_callbacks])

\* The task on_relay_request created runs broadcast_message
RunBroadcastTask ==
    /\ ~Busy
    /\ broadcast_tasks # <<>>
    /\ broadcast_tasks' = Tail(broadcast_tasks)
    /\ BroadcastMessage(Head(broadcast_tasks), msgs)
    /\ UNCHANGED <<status, iterations, max_iterations, paused, cancelled,
                   messages, full_response, final_result, error, wpc, tool_round,
                   emit_count, tools_left, agent_callbacks,
                   agent_intervention_handlers, active_station_id,
                   intervention_history, queueVars, active_subagents, boundVars,
                   runVars>>

\* Targets of an intervention's relay message
InterventionTargetIds(iv) ==
    IF iv.scope = "single" /\ iv.target_agent_id # "" THEN <<iv.target_agent_id>>
    ELSE IF iv.scope = "selected" /\ iv.target_agent_ids # <<>> THEN iv.target_agent_ids
    ELSE <<>>

\* The relay message broadcast_intervention builds
InterventionMessage(iv) ==
    [type |-> "human_intervention", src |-> "human",
     targets |-> InterventionTargetIds(iv),
     importance |-> Min(10, iv.priority + 3),
     itype |-> iv.type, priority |-> iv.priority,
     requires_ack |-> TRUE, viewed_by |-> {}]

\* broadcast_intervention(intervention)
BroadcastIntervention(iv) ==
    LET m == Len(msgs) + 1
        heap == Append(msgs, InterventionMessage(iv))
        st0 == [DeliveryState EXCEPT !.heap = heap]
        target_ids == InterventionTargetIds(iv)
        actual_targets == IF target_ids # <<>> THEN target_ids ELSE agent_callbacks
    IN  /\ intervention_history' = Append(intervention_history, iv)
        /\ stations' = AddToStation(InterventionStation, m)
        /\ message_history' = Append(message_history, m)
        /\ SetDelivered(DeliverIntervention(st0, actual_targets, m))
        /\ pending_relay_events' = Append(pending_relay_events, m)

\* The effects of broadcast_intervention in program order: the append to
\* the intervention history, then one callback per registered target
InterventionEffects(iv) ==
    LET target_ids == InterventionTargetIds(iv)
        actual_targets == IF target_ids # <<>> THEN target_ids ELSE agent_callbacks
        called == SelectSeq(actual_targets, LAMBDA a : InSeq(a, agent_callbacks))
    IN  <<<<"history", "">>>> \o [i \in 1..Len(called) |-> <<"deliver", called[i]>>]

\* No call of the intervention interface yet
NoCall == [op |-> "none", agent |-> "", scope |-> "", broadcast |-> FALSE,
           msg |-> 0, effects |-> <<>>]

\* A call op for the worker `agent` (or "" for all) that acts on workers
\* (direct), broadcasts the intervention iv or not, and acts on workers
\* again (after)
Call(op, agent, iv, broadcast, direct, after) ==
    [op |-> op, agent |-> agent, scope |-> iv.scope, broadcast |-> broadcast,
     msg |-> IF broadcast THEN Len(msgs) + 1 ELSE 0,
     effects |-> direct \o (IF broadcast THEN InterventionEffects(iv) ELSE <<>>)
                  \o after]

NoBroadcast ==
    UNCHANGED <<intervention_history, stations, message_history, relay_inbox,
                pending_acknowledgements, relay_messages_received, msgs,
                pending_relay_events, ack_text_since>>

Intervention(type, scope, target, targets, priority) ==
    [type |-> type, scope |-> scope, target_agent_id |-> target,
     target_agent_ids |-> targets, priority |-> priority]

-----------------------------------------------------------------------------
\* MasterAgent: the intervention interface

\* SubagentRuntime.inject_information
InjectInformation(log) == Append(log, <<"inject", 0>>)

InterventionFrame ==
    /\ calls_left > 0
    /\ calls_left' = calls_left - 1
    /\ UNCHANGED <<sleeps_left, status, iterations, max_iterations, full_response, final_result,
                error, wpc, tool_round, emit_count, tools_left, agent_callbacks,
                agent_intervention_handlers, active_station_id, broadcast_tasks,
                broadcast_log, queueVars, active_subagents, execVars,
                sessionVars>>

PauseAgent(w, broadcast) ==
    /\ ~Busy
    /\ w \in active_subagents
    /\ broadcast => Len(msgs) < MaxMsgs
    /\ paused' = [paused EXCEPT ![w] = TRUE]
    /\ IF broadcast
       THEN BroadcastIntervention(Intervention("pause", "single", w, <<>>, PausePriority))
       ELSE NoBroadcast
    /\ last_call' = Call("pause_agent", w,
                          Intervention("pause", "single", w, <<>>, PausePriority),
                          broadcast, <<<<"pause", w>>>>, <<>>)
    /\ UNCHANGED <<cancelled, messages>>
    /\ InterventionFrame

ResumeAgent(w, broadcast) ==
    /\ ~Busy
    /\ w \in active_subagents
    /\ broadcast => Len(msgs) < MaxMsgs
    /\ paused' = [paused EXCEPT ![w] = FALSE]
    /\ IF broadcast
       THEN BroadcastIntervention(Intervention("resume", "single", w, <<>>, ResumePriority))
       ELSE NoBroadcast
    /\ last_call' = Call("resume_agent", w,
                          Intervention("resume", "single", w, <<>>, ResumePriority),
                          broadcast, <<<<"resume", w>>>>, <<>>)
    /\ UNCHANGED <<cancelled, messages>>
    /\ InterventionFrame

CancelAgent(w, broadcast) ==
    /\ ~Busy
    /\ w \in active_subagents
    /\ broadcast => Len(msgs) < MaxMsgs
    /\ cancelled' = [cancelled EXCEPT ![w] = TRUE]
    /\ IF broadcast
       THEN BroadcastIntervention(Intervention("cancel", "single", w, <<>>, CancelPriority))
       ELSE NoBroadcast
    /\ last_call' = Call("cancel_agent", w,
                          Intervention("cancel", "single", w, <<>>, CancelPriority),
                          broadcast, <<<<"cancel", w>>>>, <<>>)
    /\ UNCHANGED <<paused, messages>>
    /\ InterventionFrame

InjectToAgent(w, broadcast, priority) ==
    /\ ~Busy
    /\ w \in active_subagents
    /\ broadcast => Len(msgs) < MaxMsgs
    /\ messages' = [messages EXCEPT ![w] = InjectInformation(@)]
    /\ IF broadcast
       THEN BroadcastIntervention(Intervention("inject", "broadcast", w, <<>>, priority))
       ELSE NoBroadcast
    /\ last_call' = Call("inject_to_agent", w,
                          Intervention("inject", "broadcast", w, <<>>, priority),
                          broadcast, <<<<"ingest", w>>>>, <<>>)
    /\ UNCHANGED <<paused, cancelled>>
    /\ InterventionFrame

\* list(self.active_subagents.keys())
ActiveList == SelectSeq(AgentOrder, LAMBDA a : a \in active_subagents)

Ingested_Nothing(log, ws) == log

\* The log of every worker of the list after inject_information
Ingested(log, ws) ==
    [w \in Agents |-> IF InSeq(w, ws) THEN InjectInformation(log[w]) ELSE log[w]]

\* broadcast_to_all_agents(message, reason, priority, force_action): the
\* intervention is broadcast, then, when forced, every active worker
\* ingests the message
BroadcastToAllAgents(force_action, priority) ==
    /\ ~Busy
    /\ active_subagents # {}
    /\ Len(msgs) < MaxMsgs
    /\ LET iv == Intervention("inject", IF force_action THEN "all" ELSE "broadcast",
                              "", ActiveList, priority)
       IN  /\ BroadcastIntervention(iv)
           /\ last_call' = Call("broadcast_to_all_agents", "", iv, TRUE, <<>>,
                                IF force_action
                                THEN [i \in 1..Len(ActiveList) |->
                                         <<"ingest", ActiveList[i]>>]
                                ELSE <<>>)
    /\ messages' = IF force_action THEN Ingested(messages, ActiveList) ELSE messages
    /\ UNCHANGED <<paused, cancelled>>
    /\ InterventionFrame

\* adjust_agent(agent_id, adjustments, reason, broadcast)
AdjustAgent(w, broadcast) ==
    /\ ~Busy
    /\ w \in active_subagents
    /\ broadcast => Len(msgs) < MaxMsgs
    /\ messages' = [messages EXCEPT ![w] = InjectInformation(@)]
    /\ IF broadcast
       THEN BroadcastIntervention(Intervention("adjust", "broadcast", w, <<>>, AdjustPriority))
       ELSE NoBroadcast
    /\ last_call' = Call("adjust_agent", w,
                          Intervention("adjust", "broadcast", w, <<>>, AdjustPriority),
                          broadcast, <<<<"ingest", w>>>>, <<>>)
    /\ UNCHANGED <<paused, cancelled>>
    /\ InterventionFrame

\* The workers apply_intervention acts on: by scope, those that are active
ApplyTargets(iv) ==
    LET targets == IF iv.scope = "single"
                   THEN (IF iv.target_agent_id # "" THEN <<iv.target_agent_id>>
                         ELSE <<>>)
                   ELSE IF iv.scope = "selected" THEN iv.target_agent_ids
                   ELSE ActiveList
    IN  SelectSeq(targets, LAMBDA a : a \in active_subagents)

\* apply_intervention(intervention): the action of the intervention's type
\* on every target, then the broadcast when broadcast_to_relay is set
ApplyIntervention(iv, broadcast_to_relay) ==
    /\ ~Busy
    /\ broadcast_to_relay => Len(msgs) < MaxMsgs
    /\ LET acted == ApplyTargets(iv)
           word == IF iv.type \in {"inject", "adjust"} THEN "ingest" ELSE iv.type
       IN  /\ paused' = [w \in Agents |->
                            IF InSeq(w, acted) /\ iv.type = "pause" THEN TRUE
                            ELSE IF InSeq(w, acted) /\ iv.type = "resume" THEN FALSE
                            ELSE paused[w]]
           /\ cancelled' = [w \in Agents |->
                               cancelled[w] \/ (InSeq(w, acted) /\ iv.type = "cancel")]
           /\ messages' = IF iv.type \in {"inject", "adjust"}
                          THEN Ingested(messages, acted) ELSE messages
           /\ last_call' = Call("apply_intervention", iv.target_agent_id, iv,
                                broadcast_to_relay,
                                [i \in 1..Len(acted) |-> <<word, acted[i]>>], <<>>)
    /\ IF broadcast_to_relay THEN BroadcastIntervention(iv) ELSE NoBroadcast
    /\ InterventionFrame

\* get_pending_relay_events(): the route returns the events in its response
GetPendingRelayEvents ==
    /\ ~Busy
    /\ pending_relay_events # <<>>
    /\ pending_relay_events' = <<>>
    /\ UNCHANGED <<workerVars, relayVars, queueVars, active_subagents, boundVars,
                   runVars, ack_text_since>>

\* request_alignment(requesting_agent_id, ...): builds an ALIGNMENT message
\* and broadcasts it
RequestAlignment(w) ==
    /\ ~Busy
    /\ Len(msgs) < MaxMsgs
    /\ calls_left > 0
    /\ calls_left' = calls_left - 1
    /\ LET m == Len(msgs) + 1
           heap == Append(msgs, [type |-> "alignment", src |-> w, targets |-> <<>>,
                                 importance |-> AlignmentImportance, itype |-> "",
                                 priority |-> 0, requires_ack |-> FALSE,
                                 viewed_by |-> {}])
       IN  BroadcastMessage(m, heap)
    /\ UNCHANGED <<status, iterations, max_iterations, paused, cancelled,
                   messages, full_response, final_result, error, wpc, tool_round,
                   emit_count, tools_left, agent_callbacks,
                   agent_intervention_handlers, active_station_id,
                   intervention_history, broadcast_tasks, queueVars,
                   active_subagents, sleeps_left, runVars>>

\* checkpoint(agent_states, phase): builds a CHECKPOINT message from
\* "master" and broadcasts it
Checkpoint ==
    /\ ~Busy
    /\ Len(msgs) < MaxMsgs
    /\ calls_left > 0
    /\ calls_left' = calls_left - 1
    /\ LET m == Len(msgs) + 1
           heap == Append(msgs, [type |-> "checkpoint", src |-> "master",
                                 targets |-> <<>>,
                                 importance |-> CheckpointImportance, itype |-> "",
                                 priority |-> 0, requires_ack |-> FALSE,
                                 viewed_by |-> {}])
       IN  BroadcastMessage(m, heap)
    /\ UNCHANGED <<status, iterations, max_iterations, paused, cancelled,
                   messages, full_response, final_result, error, wpc, tool_round,
                   emit_count, tools_left, agent_callbacks,
                   agent_intervention_handlers, active_station_id,
                   intervention_history, broadcast_tasks, queueVars,
                   active_subagents, sleeps_left, runVars>>

\* The callback objects of the coordinator's two dictionaries.  A callback
\* is named by the number of the register_agent call for its id that
\* supplied it.
InitRegistry ==
    /\ registrations = [w \in Agents |-> 0]
    /\ registered_callback = [w \in Agents |-> 0]
    /\ registered_handler = [w \in Agents |-> 0]
    /\ callbacks_called = {}

RegistryRest ==
    UNCHANGED <<workerVars, msgs, stations, active_station_id, message_history,
                intervention_history, broadcast_tasks, broadcast_log, queueVars,
                masterVars, boundVars, execVars, subscribers, last_broadcast,
                managerVars, routeVars, directVars, httpVars, last_call,
                ack_text_since>>

\* register_agent stores the intervention handler only when one is given
StoredHandler(old, n, handler) == IF handler THEN n ELSE old

\* register_agent(agent_id, callback, intervention_handler) with a new
\* callback and, when `handler`, a new intervention handler
RegisterCallbacks(w, handler) ==
    /\ registrations[w] < MaxRegistrations
    /\ LET n == registrations[w] + 1 IN
       /\ registrations' = [registrations EXCEPT ![w] = n]
       /\ registered_callback' = [registered_callback EXCEPT ![w] = n]
       /\ registered_handler' =
              [registered_handler EXCEPT ![w] = StoredHandler(@, n, handler)]
    /\ agent_callbacks' = IF InSeq(w, agent_callbacks) THEN agent_callbacks
                          ELSE Append(agent_callbacks, w)
    /\ agent_intervention_handlers' =
           {a \in Agents : registered_handler'[a] # 0}
    /\ callbacks_called' = {}
    /\ RegistryRest

\* unregister_agent(agent_id)
UnregisterCallbacks(w) ==
    /\ registered_callback' = [registered_callback EXCEPT ![w] = 0]
    /\ registered_handler' = [registered_handler EXCEPT ![w] = 0]
    /\ agent_callbacks' = SelectSeq(agent_callbacks, LAMBDA a : a # w)
    /\ agent_intervention_handlers' = agent_intervention_handlers \ {w}
    /\ callbacks_called' = {}
    /\ UNCHANGED registrations
    /\ RegistryRest

\* The callbacks the delivery loop of broadcast_message (intervention
\* FALSE) or of broadcast_intervention (TRUE) calls for a message to all
CallbacksCalled(intervention) ==
    {IF intervention /\ registered_handler[agent_callbacks[i]] # 0
     THEN [agent |-> agent_callbacks[i], kind |-> "intervention",
           registration |-> registered_handler[agent_callbacks[i]]]
     ELSE [agent |-> agent_callbacks[i], kind |-> "inbox",
           registration |-> registered_callback[agent_callbacks[i]]]
       : i \in 1..Len(agent_callbacks)}

\* A broadcast to all registered ids, seen as the callbacks it calls
BroadcastVia(intervention) ==
    /\ agent_callbacks # <<>>
    /\ callbacks_called' = CallbacksCalled(intervention)
    /\ UNCHANGED <<registrations, registered_callback, registered_handler,
                   agent_callbacks, agent_intervention_handlers>>
    /\ RegistryRest

\* _safe_callback and _safe_intervention_callback: whether the exception
\* a callback raised leaves the wrapper (`except Exception` catches it)
SafeCallbackRaises_Propagates(raised) == raised

SafeCallbackRaises(raised) == FALSE

\* The delivery loops when the callbacks of the workers in `raising` raise
\* on entry: x.st is the delivery state, x.aborted tells that an exception
\* left the loop
RECURSIVE DeliverRaising(_, _, _, _, _)
DeliverRaising(x, targets, m, raising, intervention) ==
    IF targets = <<>> \/ x.aborted THEN x
    ELSE LET a == Head(targets)
             called == InSeq(a, agent_callbacks)
             raised == called /\ a \in raising
             st1 == IF ~called \/ raised THEN x.st
                    ELSE IF intervention /\ a \in agent_intervention_handlers
                         THEN ReceiveIntervention(x.st, a, m)
                         ELSE ReceiveRelayMessage(x.st, a, m)
         IN  DeliverRaising([st |-> st1, aborted |-> SafeCallbackRaises(raised)],
                            Tail(targets), m, raising, intervention)

\* broadcast_message for a new message of src to everybody, while the
\* callbacks of the workers in `raising` raise.  last_call.effects lists
\* the callbacks that raised.
BroadcastWithFailures(src, raising) ==
    /\ ~Busy
    /\ Len(msgs) < MaxMsgs
    /\ calls_left > 0
    /\ calls_left' = calls_left - 1
    /\ LET m == Len(msgs) + 1
           heap == Append(msgs, [type |-> "discovery", src |-> src,
                                 targets |-> <<>>,
                                 importance |-> TriggerImportance, itype |-> "",
                                 priority |-> 0, requires_ack |-> FALSE,
                                 viewed_by |-> {}])
           target_ids == MessageTargets(m, heap)
           x == DeliverRaising([st |-> [DeliveryState EXCEPT !.heap = heap],
                                aborted |-> FALSE],
                               target_ids, m, raising, FALSE)
           raisers == SelectSeq(target_ids, LAMBDA a : a \in raising)
       IN  /\ stations' = AddToStation(MessageStation, m)
           /\ message_history' = Append(message_history, m)
           /\ SetDelivered(x.st)
           /\ pending_relay_events' = IF x.aborted THEN pending_relay_events
                                      ELSE Append(pending_relay_events, m)
           /\ broadcast_log' = Append(broadcast_log,
                  [id |-> m, src |-> src, empty |-> TRUE,
                   targets |-> target_ids, registered |-> agent_callbacks])
           /\ last_call' = [NoCall EXCEPT
                               !.op = "broadcast_message", !.agent = src, !.msg = m,
                               !.effects = [i \in 1..Len(raisers) |-> <<"raised", raisers[i]>>]]
    /\ UNCHANGED <<status, iterations, max_iterations, paused, cancelled,
                   messages, full_response, final_result, error, wpc, tool_round,
                   emit_count, tools_left, agent_callbacks,
                   agent_intervention_handlers, active_station_id,
                   intervention_history, broadcast_tasks, queueVars,
                   active_subagents, sleeps_left, execVars, sessionVars>>

\* broadcast_intervention(intervention) while the callbacks of the workers
\* in `raising` raise
InterveneWithFailures(iv, raising) ==
    /\ ~Busy
    /\ Len(msgs) < MaxMsgs
    /\ calls_left > 0
    /\ calls_left' = calls_left - 1
    /\ LET m == Len(msgs) + 1
           heap == Append(msgs, InterventionMessage(iv))
           target_ids == InterventionTargetIds(iv)
           actual_targets == IF target_ids # <<>> THEN target_ids ELSE agent_callbacks
           x == DeliverRaising([st |-> [DeliveryState EXCEPT !.heap = heap],
                                aborted |-> FALSE],
                               actual_targets, m, raising, TRUE)
           raisers == SelectSeq(actual_targets, LAMBDA a : a \in raising)
       IN  /\ intervention_history' = Append(intervention_history, iv)
           /\ stations' = AddToStation(InterventionStation, m)
           /\ message_history' = Append(message_history, m)
           /\ SetDelivered(x.st)
           /\ pending_relay_events' = IF x.aborted THEN pending_relay_events
                                      ELSE Append(pending_relay_events, m)
           /\ last_call' = [NoCall EXCEPT
                               !.op = "broadcast_intervention", !.agent = "human",
                               !.scope = iv.scope, !.msg = m,
                               !.effects = [i \in 1..Len(raisers) |-> <<"raised", raisers[i]>>]]
    /\ UNCHANGED <<status, iterations, max_iterations, paused, cancelled,
                   messages, full_response, final_result, error, wpc, tool_round,
                   emit_count, tools_left, agent_callbacks,
                   agent_intervention_handlers, active_station_id,
                   broadcast_tasks, broadcast_log, queueVars,
                   active_subagents, sleeps_left, execVars, sessionVars>>

\* The explicit target lists a message may carry: ids in any order, an id
\* twice, ids that are not registered
TargetLists ==
    UNION {[1..n -> Agents] : n \in 1..MaxTargets}

\* broadcast_message(message) for a message of src whose target_agent_ids
\* is the list targets
BroadcastListed(src, targets) ==
    /\ ~Busy
    /\ Len(msgs) < MaxMsgs
    /\ calls_left > 0
    /\ calls_left' = calls_left - 1
    /\ LET m == Len(msgs) + 1
           heap == Append(msgs, [type |-> "discovery", src |-> src,
                                 targets |-> targets,
                                 importance |-> TriggerImportance, itype |-> "",
                                 priority |-> 0, requires_ack |-> FALSE,
                                 viewed_by |-> {}])
       IN  BroadcastMessage(m, heap)
    /\ UNCHANGED <<status, iterations, max_iterations, paused, cancelled,
                   messages, full_response, final_result, error, wpc, tool_round,
                   emit_count, tools_left, agent_callbacks,
                   agent_intervention_handlers, active_station_id,
                   intervention_history, broadcast_tasks, queueVars,
                   active_subagents, sleeps_left, runVars>>

-----------------------------------------------------------------------------
\* MasterAgent.execute_task and the consumer of its events

\* An event of execute_task that belongs to no worker, or to worker w
MEvent(type) == [type |-> type, agent |-> "", status |-> "", n |-> 0]
AgentEvent(type, w) == [type |-> type, agent |-> w, status |-> "", n |-> 0]

\* _convert_event: the AG-UI event of a worker's event dictionary; the types
\* outside CONVERTED are skipped
CONVERTED == {"status", "progress", "thinking", "relay", "tool_call_start",
              "tool_call_result"}
ConvertEvent(e) ==
    [e EXCEPT !.type = CASE e.type = "status" -> "agent_status_changed"
                         [] e.type = "progress" -> "agent_progress"
                         [] e.type = "thinking" -> "agent_thinking"
                         [] e.type = "relay" -> "relay_message_sent"
                         [] OTHER -> e.type]

\* The increment of completed_count for an event of the priority queue
Counted(e) ==
    IF e.type = "status" /\ e.status \in {"completed", "failed"} THEN 1
    ELSE IF e.type = "error" THEN 1
    ELSE 0

\* persist_and_broadcast: the stored session's status after the events
PersistStatus(st, evs) ==
    IF \E i \in 1..Len(evs) : evs[i].type = "run_error" THEN "error"
    ELSE IF \E i \in 1..Len(evs) : evs[i].type = "run_finished" THEN "completed"
    ELSE st

\* execute_task yields the events evs; the route persists and broadcasts
\* each before it resumes the generator
Yield(evs) ==
    /\ stream' = stream \o evs
    /\ session_status' = PersistStatus(session_status, evs)

\* The workers of the plan, in the order of plan.subagent_configs
PlanOrder == <<"w1", "w2">>
PlanAgents == {PlanOrder[i] : i \in 1..Len(PlanOrder)}

AllTasksDone == \A w \in PlanAgents : wpc[w] = "done"

\* What execute_task leaves alone outside the merge loop
MasterFrame ==
    UNCHANGED <<status, iterations, max_iterations, paused, cancelled,
                pending_acknowledgements, relay_inbox, messages, full_response,
                final_result, error, relay_messages_received, tool_round,
                emit_count, tools_left, msgs, message_history,
                intervention_history, broadcast_tasks, broadcast_log,
                pending_relay_events, boundVars, ack_text_since,
                sessionVars, last_call>>

\* execute_task up to the call of the role emergence engine
ExecuteTaskStart ==
    /\ ~Busy
    /\ mpc = "idle"
    /\ mode' = "emergent"
    /\ master_status' = "planning"
    /\ Yield(<<MEvent("run_started"), MEvent("text_message_start"),
               MEvent("text_message_content")>>)
    /\ mpc' = "planning"
    /\ mbusy' = FALSE
    /\ MasterFrame
    /\ UNCHANGED <<wpc, agent_callbacks, agent_intervention_handlers, stations,
                   active_station_id, active_subagents, queueVars, done,
                   completed_count, batch_count, plan>>

\* _emerge_roles receives a plan from the engine; execute_task goes on to
\* the spawning phase
EmergeRolesPlan ==
    /\ ~Busy
    /\ mpc = "planning"
    /\ plan' = TRUE
    /\ Yield(<<MEvent("role_emerged"), MEvent("text_message_content"),
               MEvent("text_message_end"), MEvent("plan_generated"),
               MEvent("text_message_start"), MEvent("text_message_content")>>)
    /\ mpc' = "spawning"
    /\ mbusy' = FALSE
    /\ MasterFrame
    /\ UNCHANGED <<wpc, agent_callbacks, agent_intervention_handlers, stations,
                   active_station_id, active_subagents, queueVars, done,
                   completed_count, batch_count, master_status, mode>>

\* The engine yields an error event, or raises: _emerge_roles turns either
\* into a text; session.plan stays unset and execute_task returns
EmergeRolesError ==
    /\ ~Busy
    /\ mpc = "planning"
    /\ Yield(<<MEvent("text_message_content"), MEvent("text_message_content"),
               MEvent("text_message_end")>>)
    /\ mpc' = "returned"
    /\ mbusy' = FALSE
    /\ MasterFrame
    /\ UNCHANGED <<wpc, agent_callbacks, agent_intervention_handlers, stations,
                   active_station_id, active_subagents, queueVars, done,
                   completed_count, batch_count, plan, master_status, mode>>

\* A station as create_station builds it
NewStation == [is_active |-> FALSE, messages |-> <<>>, started |-> FALSE,
               completed |-> FALSE]

OpenStation_NoClose(sid) ==
    IF sid \in 1..Len(stations)
    THEN /\ stations' = [stations EXCEPT ![sid].is_active = TRUE,
                                         ![sid].started = TRUE]
         /\ active_station_id' = sid
    ELSE UNCHANGED <<stations, active_station_id>>

\* open_station(station_id): False when the coordinator has no such
\* station; the active station is closed first (close_station never
\* suspends, so the call is one step)
OpenStation(sid) ==
    IF sid \in 1..Len(stations)
    THEN /\ stations' = [i \in 1..Len(stations) |->
                            IF i = sid
                            THEN [stations[i] EXCEPT
                                     !.is_active = TRUE,
                                     !.started = TRUE,
                                     !.completed = @ \/ active_station_id = sid]
                            ELSE IF i = active_station_id
                            THEN [stations[i] EXCEPT !.is_active = FALSE,
                                                     !.completed = TRUE]
                            ELSE stations[i]]
         /\ active_station_id' = sid
    ELSE UNCHANGED <<stations, active_station_id>>

\* close_station(station_id)
CloseStation(sid) ==
    IF sid \in 1..Len(stations)
    THEN /\ stations' = [stations EXCEPT ![sid].is_active = FALSE,
                                         ![sid].completed = TRUE]
         /\ active_station_id' = IF active_station_id = sid THEN 0
                                  ELSE active_station_id
    ELSE UNCHANGED <<stations, active_station_id>>

\* The station of the plan is an object of the plan, not one the
\* coordinator created: its id is none of the coordinator's
PlanStationId == Len(stations) + 1

\* _spawn_subagents and the rest of execute_task up to the merge loop:
\* stale registrations removed, one runtime per config registered, the
\* first station of the plan opened (_parse_response gives every plan a
\* station)
SpawnSubagents ==
    /\ ~Busy
    /\ mpc = "spawning"
    /\ agent_callbacks' = PlanOrder
    /\ agent_intervention_handlers' = PlanAgents
    /\ active_subagents' = active_subagents \cup PlanAgents
    /\ master_status' = "running"
    /\ OpenStation(PlanStationId)
    /\ Yield([i \in 1..Len(PlanOrder) |-> AgentEvent("agent_spawned", PlanOrder[i])]
             \o <<MEvent("text_message_end"), MEvent("text_message_start"),
                  MEvent("text_message_content"), MEvent("text_message_end"),
                  MEvent("relay_station_opened")>>)
    /\ mpc' = "create_tasks"
    /\ mbusy' = FALSE
    /\ MasterFrame
    /\ UNCHANGED <<wpc, queueVars, done, completed_count, batch_count, plan, mode>>

\* The registrations _spawn_subagents keeps: those whose id is in the
\* subagent_states of the TaskSession of the run that spawns
KeptRegistrations(registered, subagent_states) ==
    SelectSeq(registered, LAMBDA a : a \in subagent_states)

\* A second request for the session arrives while its run is executing:
\* the session is active, so the route gets the same Master from
\* get_or_create_agent and calls execute_task again.  The new execute_task
\* has a new TaskSession, whose subagent_states is empty when
\* _spawn_subagents removes the old registrations; its plan has the one
\* worker w.
SpawnSecondRun(w) ==
    /\ ~Busy
    /\ active_subagents # {}
    /\ w \notin active_subagents
    /\ agent_callbacks' = Append(KeptRegistrations(agent_callbacks, {}), w)
    /\ agent_intervention_handlers' =
           {a \in agent_intervention_handlers :
               InSeq(a, KeptRegistrations(agent_callbacks, {}))} \cup {w}
    /\ active_subagents' = active_subagents \cup {w}
    /\ UNCHANGED <<workerVars, msgs, stations, active_station_id, message_history,
                   intervention_history, broadcast_tasks, broadcast_log,
                   queueVars, pending_relay_events, boundVars, runVars,
                   ack_text_since>>

-----------------------------------------------------------------------------
\* MasterAgent._execute_subagents_parallel

\* What the merge loop leaves alone
MergeFrame ==
    /\ MasterFrame
    /\ UNCHANGED <<agent_callbacks, agent_intervention_handlers, stations,
                   active_station_id, active_subagents, plan, master_status, mode>>

\* One event taken off a queue: counted, converted and yielded, or skipped.
\* A yield suspends the generator; a skipped event does not.
Forward(e, counts) ==
    /\ completed_count' = completed_count + (IF counts THEN Counted(e) ELSE 0)
    /\ IF e.type \in CONVERTED
       THEN Yield(<<ConvertEvent(e)>>) /\ mbusy' = FALSE
       ELSE UNCHANGED <<stream, session_status>> /\ mbusy' = TRUE

\* The test of the while loop
LoopCondition == IF completed_count < Len(PlanOrder) THEN "stage1" ELSE "gather"

\* asyncio.create_task for every runtime, completed_count = 0, and the loop
\* is entered
CreateTasks ==
    /\ ~WorkerBusy
    /\ mpc = "create_tasks"
    /\ wpc' = [w \in Agents |-> IF w \in PlanAgents THEN "pending" ELSE wpc[w]]
    /\ completed_count' = 0
    /\ mpc' = "stage1"
    /\ mbusy' = TRUE
    /\ MergeFrame
    /\ UNCHANGED <<queueVars, done, batch_count, stream, session_status>>

\* Stage 1: the priority queue is drained first
Stage1 ==
    /\ ~WorkerBusy
    /\ mpc = "stage1"
    /\ IF priority_queue # <<>>
       THEN /\ priority_queue' = Tail(priority_queue)
            /\ Forward(Head(priority_queue), TRUE)
            /\ UNCHANGED <<mpc, batch_count>>
       ELSE /\ mpc' = "stage2"
            /\ batch_count' = 0
            /\ mbusy' = TRUE
            /\ UNCHANGED <<priority_queue, completed_count, stream, session_status>>
    /\ MergeFrame
    /\ UNCHANGED <<wpc, normal_queue, priority_wait, normal_wait, done>>

\* Stage 2: a batch of at most MaxBatch events of the normal queue
Stage2 ==
    /\ ~WorkerBusy
    /\ mpc = "stage2"
    /\ batch_count < MaxBatch
    /\ normal_queue # <<>>
    /\ normal_queue' = Tail(normal_queue)
    /\ batch_count' = batch_count + 1
    /\ Forward(Head(normal_queue), FALSE)
    /\ MergeFrame
    /\ UNCHANGED <<wpc, mpc, priority_queue, priority_wait, normal_wait, done>>

\* Stage 3: with both queues empty the loop ends if every task is done, and
\* else waits on a get() of each queue; with a queue not empty it goes
\* round
Stage3 ==
    /\ ~WorkerBusy
    /\ mpc = "stage2"
    /\ ~(batch_count < MaxBatch /\ normal_queue # <<>>)
    /\ IF priority_queue = <<>> /\ normal_queue = <<>>
       THEN IF AllTasksDone
            THEN /\ mpc' = "gather"
                 /\ mbusy' = TRUE
                 /\ UNCHANGED <<priority_wait, normal_wait>>
            ELSE /\ priority_wait' = Waiting
                 /\ normal_wait' = Waiting
                 /\ mpc' = "wait"
                 /\ mbusy' = FALSE
       ELSE /\ mpc' = LoopCondition
            /\ mbusy' = TRUE
            /\ UNCHANGED <<priority_wait, normal_wait>>
    /\ MergeFrame
    /\ UNCHANGED <<wpc, priority_queue, normal_queue, done, completed_count,
                   batch_count, stream, session_status>>

\* asyncio.wait returns: `done` holds the get() tasks that have an event
WaitReturn ==
    /\ ~WorkerBusy
    /\ mpc = "wait"
    /\ priority_wait.st = "done" \/ normal_wait.st = "done"
    /\ done' = {g \in {"priority", "normal"} :
                   IF g = "priority" THEN priority_wait.st = "done"
                   ELSE normal_wait.st = "done"}
    /\ mpc' = "woken"
    /\ mbusy' = TRUE
    /\ MergeFrame
    /\ UNCHANGED <<wpc, queueVars, completed_count, batch_count, stream,
                   session_status>>

\* asyncio.wait returns after its timeout with no get() task finished
WaitTimeout ==
    /\ ~WorkerBusy
    /\ mpc = "wait"
    /\ priority_wait.st # "done" /\ normal_wait.st # "done"
    /\ done' = {}
    /\ mpc' = "woken"
    /\ mbusy' = TRUE
    /\ MergeFrame
    /\ UNCHANGED <<wpc, queueVars, completed_count, batch_count, stream,
                   session_status>>

\* for finished_task in done: the set is iterated in no particular order
ProcessDone(g) ==
    /\ ~WorkerBusy
    /\ mpc = "woken"
    /\ g \in done
    /\ done' = done \ {g}
    /\ IF g = "priority"
       THEN /\ Forward(priority_wait.item, TRUE)
            /\ priority_wait' = Idle
            /\ UNCHANGED normal_wait
       ELSE /\ Forward(normal_wait.item, TRUE)
            /\ normal_wait' = Idle
            /\ UNCHANGED priority_wait
    /\ MergeFrame
    /\ UNCHANGED <<wpc, mpc, priority_queue, normal_queue, batch_count>>

\* for pending_task in pending: cancel and await.  A get() task that was
\* pending when asyncio.wait returned and has taken an event since is
\* finished: cancel() does nothing and the event it holds is dropped.
CancelPending ==
    /\ ~WorkerBusy
    /\ mpc = "woken"
    /\ done = {}
    /\ priority_wait' = Idle
    /\ normal_wait' = Idle
    /\ mpc' = LoopCondition
    /\ mbusy' = TRUE
    /\ MergeFrame
    /\ UNCHANGED <<wpc, priority_queue, normal_queue, done, completed_count,
                   batch_count, stream, session_status>>

\* After the loop: gather, the active station closed, and execute_task's
\* integration phase up to the LLM call
Gather ==
    /\ ~WorkerBusy
    /\ mpc = "gather"
    /\ AllTasksDone
    /\ CloseStation(active_station_id)
    /\ Yield((IF active_station_id \in 1..Len(stations)
               THEN <<MEvent("relay_station_closed")>> ELSE <<>>)
             \o <<MEvent("text_message_start"), MEvent("text_message_content")>>)
    /\ mpc' = "integrate"
    /\ mbusy' = FALSE
    /\ MasterFrame
    /\ UNCHANGED <<wpc, agent_callbacks, agent_intervention_handlers,
                   active_subagents, queueVars, done, completed_count,
                   batch_count, plan, master_status, mode>>

\* _integrate_results streams the report and the run finishes; or the
\* provider raises and the handler of execute_task reports the error
IntegrateResults(ok) ==
    /\ ~Busy
    /\ mpc = "integrate"
    /\ IF ok
       THEN /\ Yield(<<MEvent("text_message_content"), MEvent("text_message_end"),
                       MEvent("run_finished")>>)
            /\ master_status' = "completed"
            /\ mpc' = "finished"
       ELSE /\ Yield(<<MEvent("run_error")>>)
            /\ master_status' = "failed"
            /\ mpc' = "error"
    /\ mbusy' = FALSE
    /\ MasterFrame
    /\ UNCHANGED <<wpc, agent_callbacks, agent_intervention_handlers, stations,
                   active_station_id, active_subagents, queueVars, done,
                   completed_count, batch_count, plan, mode>>

\* What the timeout of the route's wait_for does to the generator it
\* waits for: the pending __anext__ is cancelled, CancelledError is raised
\* at the await execute_task is suspended in, no handler of execute_task
\* catches it, and the generator ends
AfterTimeout(pc) == "cancelled"

\* event_generator: HEARTBEAT_INTERVAL seconds pass without an event while
\* execute_task is suspended in the wait of its merge loop or in the LLM
\* call of the integration.  The route yields a heartbeat comment; the
\* worker tasks and the get() tasks of the merge loop are not cancelled.
HeartbeatTimeout ==
    /\ ~Busy
    /\ mpc \in {"wait", "integrate"}
    /\ mpc' = AfterTimeout(mpc)
    /\ last_call' = [NoCall EXCEPT !.op = "heartbeat"]
    /\ UNCHANGED <<workerVars, relayVars, queueVars, masterVars, boundVars,
                   done, completed_count, batch_count, plan, master_status,
                   session_status, stream, mode, mbusy, sessionVars,
                   ack_text_since>>

-----------------------------------------------------------------------------
\* DirectAgent.execute_task

DirectStart ==
    /\ ~Busy
    /\ mpc = "idle"
    /\ mode' = "direct"
    /\ master_status' = "running"
    /\ Yield(<<MEvent("run_started")>>)
    /\ mpc' = "direct_llm"
    /\ mbusy' = FALSE
    /\ MasterFrame
    /\ UNCHANGED <<wpc, agent_callbacks, agent_intervention_handlers, stations,
                   active_station_id, active_subagents, queueVars, done,
                   completed_count, batch_count, plan>>

\* The answer is streamed and the run finishes; or an exception reaches the
\* handler, which reports it as a text and a run_error
DirectAnswer(ok) ==
    /\ ~Busy
    /\ mpc = "direct_llm"
    /\ IF ok
       THEN /\ Yield(<<MEvent("text_message_start"), MEvent("text_message_content"),
                       MEvent("text_message_end"), MEvent("run_finished")>>)
            /\ master_status' = "completed"
            /\ mpc' = "finished"
       ELSE /\ Yield(<<MEvent("text_message_content"), MEvent("text_message_end"),
                       MEvent("run_error")>>)
            /\ master_status' = "failed"
            /\ mpc' = "error"
    /\ mbusy' = FALSE
    /\ MasterFrame
    /\ UNCHANGED <<wpc, agent_callbacks, agent_intervention_handlers, stations,
                   active_station_id, active_subagents, queueVars, done,
                   completed_count, batch_count, plan, mode>>

-----------------------------------------------------------------------------
\* SessionManager: the subscribers of one session

SessionIds == {"s1", "s2"}

\* No SessionInfo, no record
NoSession == [present |-> FALSE, status |-> "none", mode |-> "none",
              final_report |-> FALSE, stale |-> FALSE]
NoRecord == [status |-> "none", stale |-> FALSE]

\* The calls of execute_task a client makes on one direct-mode session, and
\* a call that has not started
TurnIds == {"t1", "t2"}
NoTurn == [pc |-> "idle", messages |-> <<>>, produced |-> <<>>]

\* SessionManager.__init__ and an empty repository
NoRequest ==
    [intervention_type |-> "none", agent_id |-> "", agent_ids |-> <<>>,
     payload |-> {}, scope |-> "single", found |-> FALSE]
NoResponse == [status |-> 0, call |-> "none", force_action |-> FALSE]

InitManager ==
    /\ sessions = [s \in SessionIds |-> NoSession]
    /\ agents = [s \in SessionIds |-> 0]
    /\ instances = <<>>
    /\ db = [s \in SessionIds |-> NoRecord]
    /\ session_subscribers = [s \in SessionIds |-> <<>>]
    /\ running = [s \in SessionIds |-> 0]

\* The route before the first event of its run
InitRoute ==
    /\ emitted = 0
    /\ current_event = [n |-> 0, type |-> "none"]
    /\ persisted = {}
    /\ persist_tasks = {}
    /\ received = [id \in 1..MaxSubscribers |-> <<>>]
    /\ rpc = "next"

\* No broadcast_event call yet
NoEventBroadcast == [n |-> 0, event |-> "", raised |-> {}]

\* The events a caller broadcasts
SessionEvents == {"e1", "e2"}

SubscriberIds == {subscribers[i].id : i \in 1..Len(subscribers)}

\* What the session manager leaves alone
SessionFrame ==
    UNCHANGED <<workerVars, relayVars, queueVars, masterVars, boundVars,
                execVars, last_call, ack_text_since, managerVars, routeVars,
                directVars, registryVars, httpVars>>

\* subscribe(session_id, maxsize): a new bounded queue at the end of the
\* session's list
Subscribe ==
    /\ ~Busy
    /\ Len(subscribers) < MaxSubscribers
    /\ LET id == CHOOSE n \in 1..MaxSubscribers : n \notin SubscriberIds
       IN  subscribers' = Append(subscribers, [id |-> id, q |-> <<>>])
    /\ UNCHANGED last_broadcast
    /\ SessionFrame

\* unsubscribe(session_id, queue)
Unsubscribe(id) ==
    /\ ~Busy
    /\ id \in SubscriberIds
    /\ subscribers' = SelectSeq(subscribers, LAMBDA x : x.id # id)
    /\ UNCHANGED last_broadcast
    /\ SessionFrame

\* The subscriber's client takes the oldest event off its queue
ConsumeEvent(id) ==
    /\ ~Busy
    /\ \E i \in 1..Len(subscribers) :
          /\ subscribers[i].id = id
          /\ subscribers[i].q # <<>>
          /\ subscribers' = [subscribers EXCEPT ![i].q = Tail(@)]
    /\ UNCHANGED last_broadcast
    /\ SessionFrame

Broadcasted_Prepend(subs, event, raising) ==
    LET kept == SelectSeq(subs, LAMBDA x : x.id \notin raising)
    IN  [i \in 1..Len(kept) |->
            IF Len(kept[i].q) >= QueueMaxSize THEN kept[i]
            ELSE [kept[i] EXCEPT !.q = <<event>> \o @]]

Broadcasted_RemoveFull(subs, event, raising) ==
    LET kept == SelectSeq(subs, LAMBDA x : x.id \notin raising
                                            /\ Len(x.q) < QueueMaxSize)
    IN  [i \in 1..Len(kept) |-> [kept[i] EXCEPT !.q = Append(@, event)]]

\* The subscriber list after broadcast_event: put_nowait on a copy of the
\* list, a full queue is skipped (QueueFull), a queue whose put_nowait
\* raises anything else is removed after the loop
Broadcasted(subs, event, raising) ==
    LET kept == SelectSeq(subs, LAMBDA x : x.id \notin raising)
    IN  [i \in 1..Len(kept) |->
            IF Len(kept[i].q) >= QueueMaxSize THEN kept[i]
            ELSE [kept[i] EXCEPT !.q = Append(@, event)]]

\* broadcast_event(session_id, event); raising are the subscribers whose
\* put_nowait raises an exception other than QueueFull
BroadcastEvent(event, raising) ==
    /\ ~Busy
    /\ last_broadcast.n < MaxBroadcasts
    /\ raising \subseteq SubscriberIds
    /\ subscribers' = Broadcasted(subscribers, event, raising)
    /\ last_broadcast' = [n |-> last_broadcast.n + 1, event |-> event,
                          raised |-> raising]
    /\ SessionFrame

-----------------------------------------------------------------------------
\* SessionManager: the directory of sessions and their orchestrators

\* What the directory's operations leave alone
ManagerFrame ==
    UNCHANGED <<workerVars, relayVars, queueVars, masterVars, boundVars,
                execVars, ack_text_since, subscribers, last_broadcast,
                routeVars, directVars, registryVars, httpVars>>

\* The call op made for session s
ManagerCall(op, s) == [NoCall EXCEPT !.op = op, !.agent = s]

\* SessionInfo.has_history
HasHistory(info) ==
    /\ info.status \in {"completed", "cancelled", "failed", "error"}
    /\ info.mode = "direct" \/ info.final_report

\* MasterAgent.__init__ / DirectAgent.__init__ for session s
NewInstance(s, kind) ==
    [session |-> s, kind |-> kind, workers |-> {}, history |-> 0, cleaned |-> FALSE]

\* MasterAgent.cleanup / DirectAgent.cleanup
Cleanup(x) == [x EXCEPT !.workers = {}, !.history = 0, !.cleaned = TRUE]

\* The SessionInfo that get_or_create_agent and get_or_create_direct_agent
\* find or create, touched
Touched(info, req_mode) ==
    IF info.present THEN [info EXCEPT !.stale = FALSE]
    ELSE [present |-> TRUE, status |-> "active", mode |-> req_mode,
          final_report |-> FALSE, stale |-> FALSE]

\* The record after _persist_session (a session just created) and
\* _update_session_activity
Activity(rec, info) ==
    IF ~info.present THEN [status |-> "active", stale |-> FALSE]
    ELSE IF rec.status = "none" THEN rec
    ELSE [rec EXCEPT !.stale = FALSE]

\* The instances with those of the list disposed
Disposed(insts, is) ==
    [i \in 1..Len(insts) |-> IF i \in is THEN Cleanup(insts[i]) ELSE insts[i]]

\* The sessions whose subscribers broadcast_event(s, event) puts the event to
Recipients_All(s) == SessionIds

Recipients_None(s) == {}

Recipients(s) == {s}

\* The subscribers of every session after broadcast_event(s, event)
BroadcastTo(s, event) ==
    [x \in SessionIds |->
        IF x \in Recipients(s)
        THEN Broadcasted(session_subscribers[x], event, {})
        ELSE session_subscribers[x]]

\* execute_task_stream with session_id s, up to the start of the run: the
\* followup detection, prepare_followup or the DirectAgent kept for a
\* followup, else get_or_create_agent / get_or_create_direct_agent
SubmitTask(s, req_mode) ==
    /\ running[s] = 0
    /\ Len(instances) < MaxInstances
    /\ LET info == sessions[s]
           followup == info.present /\ HasHistory(info)
           kind == IF req_mode = "direct" THEN "direct" ELSE "master"
           old == agents[s]
           fresh == Len(instances) + 1
           \* prepare_followup disposes the old agent and always creates a
           \* Master; get_or_create_agent keeps any agent there is;
           \* get_or_create_direct_agent replaces one that is no DirectAgent
           replace == IF followup /\ req_mode # "direct" THEN TRUE
                      ELSE IF req_mode = "direct"
                           THEN old = 0 \/ instances[old].kind # "direct"
                           ELSE old = 0
           cleaned == IF followup /\ req_mode # "direct" /\ old # 0 THEN {old} ELSE {}
       IN  /\ sessions' = [sessions EXCEPT ![s] =
                             IF followup
                             THEN [info EXCEPT !.status = "active", !.stale = FALSE]
                             ELSE Touched(info, req_mode)]
           /\ db' = [db EXCEPT ![s] =
                       IF followup /\ req_mode # "direct" THEN @
                       ELSE Activity(@, info)]
           /\ instances' = IF replace
                           THEN Append(Disposed(instances, cleaned),
                                       NewInstance(s, kind))
                           ELSE instances
           /\ agents' = [agents EXCEPT ![s] = IF replace THEN fresh ELSE old]
           /\ running' = [running EXCEPT ![s] = IF replace THEN fresh ELSE old]
    /\ last_call' = NoCall
    /\ UNCHANGED session_subscribers
    /\ ManagerFrame

\* _spawn_subagents of the run on session s: the workers are registered
SpawnWorkers(s) ==
    /\ running[s] # 0
    /\ LET i == running[s] IN
       /\ instances[i].kind = "master"
       /\ instances[i].workers = {}
       /\ instances' = [instances EXCEPT ![i].workers = PlanAgents]
    /\ last_call' = NoCall
    /\ UNCHANGED <<sessions, agents, db, session_subscribers, running>>
    /\ ManagerFrame

\* An event of the run on session s reaches persist_and_broadcast
RunEvent(s) ==
    /\ running[s] # 0
    /\ session_subscribers' = BroadcastTo(s, [session |-> s, inst |-> running[s]])
    /\ last_call' = NoCall
    /\ UNCHANGED <<sessions, agents, instances, db, running>>
    /\ ManagerFrame

\* The last event of the run on session s: run_finished (the summary is
\* saved and the status is completed), run_error (the status is error),
\* or the text that ends a run without a plan (nothing is stored)
RunEnd(s, outcome) ==
    /\ running[s] # 0
    /\ outcome = "no_plan" => instances[running[s]].kind = "master"
    /\ LET st == IF outcome = "run_finished" THEN "completed" ELSE "error" IN
       IF outcome = "no_plan"
       THEN UNCHANGED <<sessions, db>>
       ELSE /\ sessions' = [sessions EXCEPT ![s] =
                  IF ~@.present THEN @
                  ELSE [@ EXCEPT !.status = st, !.stale = FALSE,
                                 !.final_report =
                                    IF outcome = "run_finished" /\ agents[s] # 0
                                    THEN TRUE ELSE @]]
            /\ db' = [db EXCEPT ![s] =
                  IF @.status = "none" THEN @ ELSE [status |-> st, stale |-> FALSE]]
    /\ session_subscribers' = BroadcastTo(s, [session |-> s, inst |-> running[s]])
    /\ running' = [running EXCEPT ![s] = 0]
    /\ last_call' = NoCall
    /\ UNCHANGED <<agents, instances>>
    /\ ManagerFrame

\* subscribe_to_session(s): 404 for a session known neither in memory nor
\* to the repository
SubscribeTo(s) ==
    /\ sessions[s].present \/ agents[s] # 0 \/ db[s].status # "none"
    /\ Len(session_subscribers[s]) < MaxClients
    /\ session_subscribers' =
          [session_subscribers EXCEPT ![s] = Append(@, [id |-> Len(@) + 1, q |-> <<>>])]
    /\ sessions' = [sessions EXCEPT ![s] = IF @.present THEN [@ EXCEPT !.stale = FALSE]
                                           ELSE @]
    /\ last_call' = NoCall
    /\ UNCHANGED <<agents, instances, db, running>>
    /\ ManagerFrame

\* The client of the first subscriber of s takes an event, or disconnects
ClientTakes(s) ==
    /\ session_subscribers[s] # <<>>
    /\ session_subscribers[s][1].q # <<>>
    /\ session_subscribers' = [session_subscribers EXCEPT ![s][1].q = Tail(@)]
    /\ last_call' = NoCall
    /\ UNCHANGED <<sessions, agents, instances, db, running>>
    /\ ManagerFrame

UnsubscribeFrom(s) ==
    /\ session_subscribers[s] # <<>>
    /\ session_subscribers' = [session_subscribers EXCEPT ![s] = Tail(@)]
    /\ last_call' = NoCall
    /\ UNCHANGED <<sessions, agents, instances, db, running>>
    /\ ManagerFrame

\* The intervention route for session s with a worker of the orchestrator j
\* as its agent_id: inject_to_agent on the agent get_agent(s) returns,
\* which knows the worker or returns False
Intervene(s, j) ==
    /\ agents[s] # 0
    /\ j \in 1..Len(instances)
    /\ instances[j].workers # {}
    /\ LET i == agents[s] IN
       /\ instances[i].history < MaxInterventions
       /\ instances' = IF i = j
                       THEN [instances EXCEPT ![i].history = @ + 1]
                       ELSE instances
    /\ sessions' = [sessions EXCEPT ![s] = IF @.present THEN [@ EXCEPT !.stale = FALSE]
                                           ELSE @]
    /\ last_call' = ManagerCall("apply_intervention", s)
    /\ UNCHANGED <<agents, db, session_subscribers, running>>
    /\ ManagerFrame

\* What close_session and close_session_sync do to the directory
Closed(ss) ==
    /\ instances' = Disposed(instances, {agents[s] : s \in ss} \ {0})
    /\ agents' = [s \in SessionIds |-> IF s \in ss THEN 0 ELSE agents[s]]
    /\ sessions' = [s \in SessionIds |-> IF s \in ss THEN NoSession ELSE sessions[s]]

\* The records after the repository's update_session(status completed)
ClosedRecords(ss) ==
    [s \in SessionIds |->
        IF s \in ss /\ db[s].status # "none"
        THEN [db[s] EXCEPT !.status = "completed"] ELSE db[s]]

\* DELETE /session/{s}: close_session_sync
CloseSession(s) ==
    /\ sessions[s].present \/ agents[s] # 0
    /\ Closed({s})
    /\ db' = ClosedRecords({s})
    /\ last_call' = NoCall
    /\ UNCHANGED <<session_subscribers, running>>
    /\ ManagerFrame

\* The timeout passes for session s without any activity
TimePasses(s) ==
    /\ sessions[s].present
    /\ ~sessions[s].stale
    /\ sessions' = [sessions EXCEPT ![s].stale = TRUE]
    /\ db' = [db EXCEPT ![s] = IF @.status = "none" THEN @ ELSE [@ EXCEPT !.stale = TRUE]]
    /\ last_call' = NoCall
    /\ UNCHANGED <<agents, instances, session_subscribers, running>>
    /\ ManagerFrame

\* _cleanup_expired_sessions: close_session for every expired session of
\* the memory, then the repository's cleanup_expired_sessions
CleanupExpiredSessions ==
    /\ \E s \in SessionIds : sessions[s].present /\ sessions[s].stale
    /\ LET expired == {s \in SessionIds : sessions[s].present /\ sessions[s].stale}
           closed == ClosedRecords(expired)
       IN  /\ Closed(expired)
           /\ db' = [s \in SessionIds |->
                       IF closed[s].status = "active" /\ closed[s].stale
                       THEN [closed[s] EXCEPT !.status = "expired"]
                       ELSE closed[s]]
    /\ last_call' = ManagerCall("cleanup_expired_sessions", "")
    /\ UNCHANGED <<session_subscribers, running>>
    /\ ManagerFrame

-----------------------------------------------------------------------------
\* execute_task_stream: the route's event loop and persist_and_broadcast

\* The events persist_and_broadcast awaits the persistence of
CriticalEvents_None == {}

CriticalEvents ==
    {"agent_spawned", "agent_status_changed", "plan_generated", "run_finished",
     "run_error", "relay_station_opened", "relay_message_sent"}

\* The events whose _do_persist sets a change_type
ChangeEvents ==
    {"agent_spawned", "agent_status_changed", "plan_generated", "run_finished",
     "run_error"}

\* The events execute_task yields in these runs: a critical one with a
\* change_type, one without, and one that is not critical
RouteEvents ==
    {"agent_status_changed", "relay_station_opened", "agent_progress"}

\* What the route leaves alone
RouteFrame ==
    UNCHANGED <<workerVars, relayVars, queueVars, masterVars, boundVars,
                execVars, last_call, ack_text_since, managerVars, directVars,
                last_broadcast, registryVars, httpVars>>

\* broadcast_event of the event, then broadcast_state_changed when
\* _do_persist has set a change_type
RouteBroadcast(subs, e, changed) ==
    LET sent == Broadcasted(subs, e, {})
    IN  IF changed
        THEN Broadcasted(sent, [n |-> e.n, type |-> "session_state_changed"], {})
        ELSE sent

\* The loop takes the next event from execute_task and enters
\* persist_and_broadcast.  A critical event: _do_persist is awaited.  Any
\* other event: _do_persist becomes a task, the event is broadcast at once
\* (change_type is still None) and the loop goes on.
TakeEvent(t) ==
    /\ rpc = "next"
    /\ emitted < MaxEmitted
    /\ emitted' = emitted + 1
    /\ LET e == [n |-> emitted + 1, type |-> t] IN
       /\ current_event' = e
       /\ IF t \in CriticalEvents
          THEN /\ rpc' = "persist"
               /\ UNCHANGED <<persist_tasks, subscribers>>
          ELSE /\ persist_tasks' = persist_tasks \cup {e.n}
               /\ subscribers' = RouteBroadcast(subscribers, e, FALSE)
               /\ rpc' = "next"
    /\ UNCHANGED <<persisted, received>>
    /\ RouteFrame

\* The awaited _do_persist of a critical event returns; the event is
\* broadcast, then the state change
PersistThenBroadcast ==
    /\ rpc = "persist"
    /\ persisted' = persisted \cup {current_event.n}
    /\ subscribers' = RouteBroadcast(subscribers, current_event,
                                     current_event.type \in ChangeEvents)
    /\ rpc' = "next"
    /\ UNCHANGED <<emitted, current_event, persist_tasks, received>>
    /\ RouteFrame

\* A _do_persist task created for an event that is not critical runs
PersistTask(n) ==
    /\ n \in persist_tasks
    /\ persist_tasks' = persist_tasks \ {n}
    /\ persisted' = persisted \cup {n}
    /\ UNCHANGED <<emitted, current_event, subscribers, received, rpc>>
    /\ RouteFrame

\* subscribe_to_session's loop: event_queue.get() returns the oldest event
\* and the client is sent it
ClientReceives(id) ==
    /\ \E i \in 1..Len(subscribers) :
          /\ subscribers[i].id = id
          /\ subscribers[i].q # <<>>
          /\ received' = [received EXCEPT ![id] = Append(@, Head(subscribers[i].q))]
          /\ subscribers' = [subscribers EXCEPT ![i].q = Tail(@)]
    /\ UNCHANGED <<emitted, current_event, persisted, persist_tasks, rpc>>
    /\ RouteFrame

-----------------------------------------------------------------------------
\* State after MasterAgent._spawn_subagents: every worker constructed
\* (SubagentRuntime.__init__) and registered with both callbacks
InitWorkers(maxits, pc) ==
    /\ status = [w \in Agents |-> "pending"]
    /\ iterations = [w \in Agents |-> 0]
    /\ max_iterations = maxits
    /\ paused = [w \in Agents |-> FALSE]
    /\ cancelled = [w \in Agents |-> FALSE]
    /\ pending_acknowledgements = [w \in Agents |-> <<>>]
    /\ relay_inbox = [w \in Agents |-> <<>>]
    /\ messages = [w \in Agents |-> <<>>]
    /\ full_response = [w \in Agents |-> NoText]
    /\ final_result = [w \in Agents |-> NoResult]
    /\ error = [w \in Agents |-> FALSE]
    /\ relay_messages_received = [w \in Agents |-> <<>>]
    /\ wpc = [w \in Agents |-> pc]
    /\ tool_round = [w \in Agents |-> 0]
    /\ emit_count = [w \in Agents |-> 0]
    /\ tools_left = MaxToolCalls
    /\ ack_text_since = [w \in Agents |-> FALSE]

\* RelayStationCoordinator.__init__
InitCoordinator ==
    /\ msgs = <<>>
    /\ stations = <<>>
    /\ active_station_id = 0
    /\ message_history = <<>>
    /\ intervention_history = <<>>
    /\ broadcast_tasks = <<>>
    /\ broadcast_log = <<>>

InitQueues ==
    /\ calls_left = MaxCalls
    /\ sleeps_left = MaxSleeps
    /\ priority_queue = <<>>
    /\ normal_queue = <<>>
    /\ priority_wait = Idle
    /\ normal_wait = Idle
    /\ pending_relay_events = <<>>

\* No run of execute_task yet
InitRun ==
    /\ done = {}
    /\ completed_count = 0
    /\ batch_count = 0
    /\ plan = FALSE
    /\ master_status = "pending"
    /\ session_status = "active"
    /\ stream = <<>>
    /\ mode = "none"
    /\ mpc = "idle"
    /\ mbusy = FALSE
    /\ subscribers = <<>>
    /\ last_broadcast = NoEventBroadcast
    /\ last_call = NoCall
    /\ InitManager
    /\ InitRoute
    /\ conversation_history = <<>>
    /\ turns = [t \in TurnIds |-> NoTurn]
    /\ InitRegistry
    /\ request = NoRequest
    /\ http_response = NoResponse

\* ---- One worker's run_stream under interventions and relay traffic ----
InitWorker ==
    /\ InitWorkers([w \in Agents |-> WorkerMaxIter], "pending")
    /\ InitCoordinator
    /\ InitQueues
    /\ InitRun
    /\ agent_callbacks = AgentOrder
    /\ agent_intervention_handlers = Agents
    /\ active_subagents = Agents

\* The answers of the LLM in these runs: plain, marker, marker with an
\* acknowledgement phrase, a long marker text, a long conclusion
WorkerTexts ==
    {Text(FALSE, FALSE, FALSE, 400, FALSE),
     Text(TRUE, FALSE, FALSE, 400, FALSE),
     Text(TRUE, TRUE, FALSE, 400, FALSE),
     Text(TRUE, FALSE, FALSE, 600, FALSE),
     Text(FALSE, FALSE, TRUE, 900, FALSE)}

Running(w) == wpc[w] # "done"

NextWorker ==
    \/ RunStreamStart("w1")
    \/ LoopTop("w1")
    \/ SleepWake("w1")
    \/ LLMToolCalls("w1", TRUE)
    \/ SkillReturn("w1")
    \/ LLMChunk("w1")
    \/ \E t \in WorkerTexts : LLMFinal("w1", t)
    \/ LLMError("w1")
    \/ CompletionCheck("w1")
    \/ Running("w1") /\ ~paused["w1"] /\ PauseAgent("w1", TRUE)
    \/ Running("w1") /\ paused["w1"] /\ ResumeAgent("w1", FALSE)
    \/ Running("w1") /\ ~cancelled["w1"] /\ CancelAgent("w1", FALSE)
    \/ Running("w1") /\ InjectToAgent("w1", TRUE, DefaultPriority)
    \/ Running("w1") /\ RequestAlignment("w2")
    \/ Running("w1") /\ Checkpoint

SpecWorker == InitWorker /\ [][NextWorker]_vars

\* ---- A run of execute_task from the route's request to the end of the
\* ---- stream; the first config of the plan allows MasterMaxIter iterations,
\* ---- the others one
InitMaster ==
    /\ InitWorkers([w \in Agents |-> IF w = PlanOrder[1] THEN MasterMaxIter ELSE 1],
                   "new")
    /\ InitCoordinator
    /\ InitQueues
    /\ InitRun
    /\ agent_callbacks = <<"w3">>
    /\ agent_intervention_handlers = {"w3"}
    /\ active_subagents = {}

\* The answers of the LLM in these runs
MasterTexts ==
    {Text(FALSE, FALSE, FALSE, 400, FALSE),
     Text(TRUE, FALSE, FALSE, 400, FALSE)}

NextMaster ==
    \/ ExecuteTaskStart
    \/ EmergeRolesPlan
    \/ EmergeRolesError
    \/ SpawnSubagents
    \/ CreateTasks
    \/ Stage1
    \/ Stage2
    \/ Stage3
    \/ WaitReturn
    \/ \E g \in {"priority", "normal"} : ProcessDone(g)
    \/ CancelPending
    \/ Gather
    \/ \E ok \in BOOLEAN : IntegrateResults(ok)
    \/ DirectStart
    \/ \E ok \in BOOLEAN : DirectAnswer(ok)
    \/ \E w \in PlanAgents :
          \/ RunStreamStart(w)
          \/ LoopTop(w)
          \/ LLMChunk(w)
          \/ \E t \in MasterTexts : LLMFinal(w, t)
          \/ LLMError(w)
          \/ CompletionCheck(w)

SpecMaster == InitMaster /\ [][NextMaster]_vars

\* The same run under a route whose wait for the next event can time out
NextHeartbeat == NextMaster \/ HeartbeatTimeout

SpecHeartbeat == InitMaster /\ [][NextHeartbeat]_vars

\* The same run when the event loop keeps scheduling what is ready: every
\* task and the generator of execute_task go on as long as they can
SpecMasterFair == SpecMaster /\ WF_vars(NextMaster)

\* ---- A run whose workers can be stopped by the cancel flag or by the
\* ---- cancellation of their task, read through the route
MasterSteps ==
    \/ ExecuteTaskStart
    \/ EmergeRolesPlan
    \/ SpawnSubagents
    \/ CreateTasks
    \/ Stage1
    \/ Stage2
    \/ Stage3
    \/ WaitReturn
    \/ WaitTimeout
    \/ \E g \in {"priority", "normal"} : ProcessDone(g)
    \/ CancelPending
    \/ Gather
    \/ \E ok \in BOOLEAN : IntegrateResults(ok)

\* The answer of the LLM in these runs: the task is not complete yet
StoppedTexts == {Text(FALSE, FALSE, FALSE, 400, FALSE)}

WorkerSteps(w) ==
    \/ RunStreamStart(w)
    \/ LoopTop(w)
    \/ LLMChunk(w)
    \/ \E t \in StoppedTexts : LLMFinal(w, t)
    \/ CompletionCheck(w)

StopSteps ==
    \/ CancelAgent(PlanOrder[1], FALSE)
    \/ TaskCancelled(PlanOrder[2])

NextStopped ==
    \/ MasterSteps
    \/ \E w \in PlanAgents : WorkerSteps(w)
    \/ StopSteps

NextStoppedRoute == NextStopped \/ HeartbeatTimeout

\* The event loop keeps running execute_task while it can go on
SpecStopped == InitMaster /\ [][NextStopped]_vars /\ WF_vars(MasterSteps)

SpecStoppedRoute ==
    InitMaster /\ [][NextStoppedRoute]_vars /\ WF_vars(MasterSteps)

\* ---- Workers that trigger relay broadcasts while the registry changes ----
InitRelay ==
    /\ InitWorkers([w \in Agents |-> IF w = "w1" THEN RelayMaxIter ELSE 1], "pending")
    /\ InitCoordinator
    /\ InitQueues
    /\ InitRun
    /\ agent_callbacks = <<"w1", "w2">>
    /\ agent_intervention_handlers = {"w1", "w2"}
    /\ active_subagents = {"w1", "w2"}

\* The answers of the LLM in these runs: one that triggers a relay, one
\* with a completion marker
RelayTexts ==
    {Text(FALSE, FALSE, FALSE, 400, TRUE),
     Text(TRUE, FALSE, FALSE, 400, FALSE)}

NextRelay ==
    \/ \E w \in {"w1", "w2"} :
          \/ RunStreamStart(w)
          \/ LoopTop(w)
          \/ LLMChunk(w)
          \/ \E t \in RelayTexts : LLMFinal(w, t)
          \/ CompletionCheck(w)
    \/ RunBroadcastTask
    \/ RegisterAgent("w3", TRUE)
    \/ \E w \in {"w2", "w3"} : UnregisterAgent(w)
    \/ Checkpoint

SpecRelay == InitRelay /\ [][NextRelay]_vars

\* ---- Messages with explicit target lists while the registry changes ----
NextTargets ==
    \/ \E src \in Agents, targets \in TargetLists : BroadcastListed(src, targets)
    \/ \E handler \in BOOLEAN : RegisterAgent("w3", handler)
    \/ \E w \in {"w2", "w3"} : UnregisterAgent(w)

SpecTargets == InitRelay /\ [][NextTargets]_vars

\* ---- Broadcasts during which callbacks of workers raise ----
FailingInterventions ==
    {Intervention("inject", "all", "", <<>>, DefaultPriority),
     Intervention("inject", "selected", "", <<"w2", "w1">>, DefaultPriority)}

NextFailures ==
    \/ \E src \in Agents \cup {"master"}, raising \in SUBSET Agents :
          BroadcastWithFailures(src, raising)
    \/ \E iv \in FailingInterventions, raising \in SUBSET Agents :
          InterveneWithFailures(iv, raising)
    \/ \E handler \in BOOLEAN : RegisterAgent("w3", handler)
    \/ \E w \in {"w2", "w3"} : UnregisterAgent(w)

SpecFailures == InitRelay /\ [][NextFailures]_vars

\* ---- A second run spawned on the Master while the workers of the first
\* ---- are running ----
NextOverlap ==
    \/ \E w \in {"w1", "w3"} :
          \/ RunStreamStart(w)
          \/ LoopTop(w)
          \/ LLMChunk(w)
          \/ \E t \in RelayTexts : LLMFinal(w, t)
          \/ CompletionCheck(w)
    \/ RunBroadcastTask
    \/ SpawnSecondRun("w3")

SpecOverlap == InitRelay /\ [][NextOverlap]_vars

\* ---- Station operations on one coordinator ----
\* What create_station, open_station and close_station leave alone
StationFrame ==
    UNCHANGED <<workerVars, msgs, agent_callbacks, agent_intervention_handlers,
                message_history, intervention_history, broadcast_tasks,
                broadcast_log, queueVars, masterVars, boundVars, runVars,
                ack_text_since>>

\* create_station(name, phase, participating_agents)
CreateStation ==
    /\ ~Busy
    /\ Len(stations) < MaxStations
    /\ stations' = Append(stations, NewStation)
    /\ UNCHANGED active_station_id
    /\ StationFrame

\* A caller's open_station(sid); sid may be an id the coordinator lacks
OpenStationCall(sid) ==
    /\ ~Busy
    /\ OpenStation(sid)
    /\ StationFrame

\* A caller's close_station(sid)
CloseStationCall(sid) ==
    /\ ~Busy
    /\ CloseStation(sid)
    /\ StationFrame

InitStation ==
    /\ InitWorkers([w \in Agents |-> 1], "new")
    /\ InitCoordinator
    /\ InitQueues
    /\ InitRun
    /\ agent_callbacks = <<"w1", "w2">>
    /\ agent_intervention_handlers = {"w1", "w2"}
    /\ active_subagents = {"w1", "w2"}

NextStation ==
    \/ CreateStation
    \/ \E sid \in 1..MaxStations : OpenStationCall(sid)
    \/ \E sid \in 1..MaxStations : CloseStationCall(sid)
    \/ Checkpoint

SpecStation == InitStation /\ [][NextStation]_vars

\* ---- Subscribers of a session and the events broadcast to them ----
InitSession ==
    /\ InitWorkers([w \in Agents |-> 1], "new")
    /\ InitCoordinator
    /\ InitQueues
    /\ InitRun
    /\ agent_callbacks = <<>>
    /\ agent_intervention_handlers = {}
    /\ active_subagents = {}

NextSession ==
    \/ Subscribe
    \/ \E id \in 1..MaxSubscribers : Unsubscribe(id)
    \/ \E id \in 1..MaxSubscribers : ConsumeEvent(id)
    \/ \E e \in SessionEvents :
          \E raising \in SUBSET SubscriberIds :
             Cardinality(raising) <= 1 /\ BroadcastEvent(e, raising)

SpecSession == InitSession /\ [][NextSession]_vars

\* ---- Registrations, re-registrations and broadcasts on one coordinator ----
NextRegistry ==
    \/ \E w \in Agents, handler \in BOOLEAN : RegisterCallbacks(w, handler)
    \/ \E w \in Agents : UnregisterCallbacks(w)
    \/ \E intervention \in BOOLEAN : BroadcastVia(intervention)

SpecRegistry == InitSession /\ [][NextRegistry]_vars

\* ---- The route of one run with clients subscribing and receiving ----
NextRoute ==
    \/ \E t \in RouteEvents : TakeEvent(t)
    \/ PersistThenBroadcast
    \/ \E n \in 1..MaxEmitted : PersistTask(n)
    \/ Len(subscribers) < RouteSubscribers /\ Subscribe
    \/ \E id \in 1..MaxSubscribers : ClientReceives(id)

SpecRoute == InitSession /\ [][NextRoute]_vars

\* ---- One session of the directory under requests, runs and cleanups ----
NextManager ==
    \/ \E req_mode \in {"emergent", "direct"} : SubmitTask("s1", req_mode)
    \/ SpawnWorkers("s1")
    \/ RunEvent("s1")
    \/ \E outcome \in {"run_finished", "run_error", "no_plan"} : RunEnd("s1", outcome)
    \/ SubscribeTo("s1")
    \/ ClientTakes("s1")
    \/ UnsubscribeFrom("s1")
    \/ \E j \in 1..MaxInstances : Intervene("s1", j)
    \/ CloseSession("s1")
    \/ TimePasses("s1")
    \/ CleanupExpiredSessions

SpecManager == InitSession /\ [][NextManager]_vars

\* ---- Two sessions of the directory with their runs, subscribers and
\* ---- interventions ----
NextIsolation ==
    \/ \E s \in SessionIds : SubmitTask(s, "emergent")
    \/ \E s \in SessionIds : SpawnWorkers(s)
    \/ \E s \in SessionIds : RunEvent(s)
    \/ \E s \in SessionIds : RunEnd(s, "run_finished")
    \/ \E s \in SessionIds : SubscribeTo(s)
    \/ \E s \in SessionIds : ClientTakes(s)
    \/ \E s \in SessionIds : \E j \in 1..MaxInstances : Intervene(s, j)

SpecIsolation == InitSession /\ [][NextIsolation]_vars

\* ---- The route POST /intervention ----

\* type_map of apply_intervention
TypeMap == {"pause", "resume", "cancel", "inject", "adjust", "restart"}

\* The requests: intervention_type, agent_id ("" for None), agent_ids,
\* the keys of the payload, the scope, and whether the session has an
\* orchestrator in memory
RequestTypes == TypeMap \cup {"broadcast", "other"}
Payloads == {{}, {"information"}, {"adjustments"}, {"message"}}
Requests ==
    [intervention_type : RequestTypes, agent_id : {"", "w1"},
     agent_ids : {<<>>, <<"w1", "w2">>}, payload : Payloads,
     scope : {"single", "all"}, found : BOOLEAN]

HttpFrame ==
    UNCHANGED <<workerVars, relayVars, queueVars, masterVars, boundVars,
                execVars, subscribers, last_broadcast, managerVars, routeVars,
                directVars, registryVars, last_call, ack_text_since>>

Rejected(code) == [status |-> code, call |-> "none", force_action |-> FALSE]
Accepted(call, force_action) ==
    [status |-> 200, call |-> call, force_action |-> force_action]

\* apply_intervention(request): the answer's status code and the method of
\* the orchestrator the route calls
Dispatch(req) ==
    LET t == req.intervention_type IN
    IF ~req.found THEN Rejected(404)
    ELSE IF t \notin TypeMap THEN Rejected(400)
    ELSE IF t \in {"pause", "resume", "cancel"}
         THEN IF req.agent_id # "" THEN Accepted(t \o "_agent", FALSE)
              ELSE Accepted(t \o "_agent for all", FALSE)
    ELSE IF t = "inject"
         THEN IF "information" \notin req.payload THEN Rejected(400)
              ELSE IF req.agent_id # "" THEN Accepted("inject_to_agent", FALSE)
              ELSE IF req.agent_ids # <<>>
                   THEN Accepted("inject_to_agent for selected", FALSE)
              ELSE Accepted("broadcast_to_all_agents", req.scope = "all")
    ELSE IF t = "adjust"
         THEN IF "adjustments" \notin req.payload THEN Rejected(400)
              ELSE IF req.agent_id = "" THEN Rejected(400)
              ELSE Accepted("adjust_agent", FALSE)
    ELSE IF t = "broadcast"
         THEN IF "message" \notin req.payload THEN Rejected(400)
              ELSE Accepted("broadcast_to_all_agents", FALSE)
    ELSE Rejected(400)

\* A POST /intervention is answered
PostIntervention(req) ==
    /\ request' = req
    /\ http_response' = Dispatch(req)
    /\ HttpFrame

NextRequest == \E req \in Requests : PostIntervention(req)

\* ---- DirectAgent: the conversation history of the direct mode ----

\* Lengths of the task, of a tool's result (0: no tool is called) and of
\* the final answer (0: nothing but blanks) of a turn
TaskLens == {100}
ToolLens == {0, 2000}
FinalLens == {0, 200, 13000}

\* execute_task keeps the first ToolResultCut characters of a longer tool
\* result and appends a notice of CutNoticeLen characters
ToolResultCut == 1500
CutNoticeLen == 18

\* _trim_conversation_history: rounds kept, the budget of characters, and
\* the number of rounds the budget never goes below
MaxRounds == 6
MaxHistoryChars == 24000
MinRounds == 2

DirectFrame ==
    UNCHANGED <<workerVars, relayVars, queueVars, masterVars, boundVars,
                execVars, ack_text_since, subscribers, last_broadcast,
                managerVars, routeVars, registryVars, httpVars, turns>>

\* The message as it is appended to the history
Retained(m) ==
    IF m.role = "tool" /\ m.len > ToolResultCut
    THEN [m EXCEPT !.len = ToolResultCut + CutNoticeLen]
    ELSE m

\* round_starts: the positions of the user messages
RoundStarts(h) == {i \in 1..Len(h) : h[i].role = "user"}

RECURSIVE TotalChars(_)
TotalChars(h) == IF h = <<>> THEN 0 ELSE h[1].len + TotalChars(Tail(h))

\* Basic trimming: the last n rounds
TrimRounds(h, n) ==
    LET rs == RoundStarts(h) IN
    IF Cardinality(rs) > n
    THEN LET trim_from == CHOOSE i \in rs : Cardinality({j \in rs : j >= i}) = n
         IN  SubSeq(h, trim_from, Len(h))
    ELSE h

OverBudget_Never(h) == FALSE

\* The condition of the budget loop
OverBudget(h) ==
    TotalChars(h) > MaxHistoryChars /\ Cardinality(RoundStarts(h)) > MinRounds

\* The budget loop: drop the oldest round while the condition holds
RECURSIVE TrimBudget(_)
TrimBudget(h) ==
    IF OverBudget(h)
    THEN LET rs == RoundStarts(h)
             next_round_start == CHOOSE i \in rs : Cardinality({j \in rs : j <= i}) = 2
         IN  TrimBudget(SubSeq(h, next_round_start, Len(h)))
    ELSE h

TrimConversationHistory(h) == TrimBudget(TrimRounds(h, MaxRounds))

\* A completed turn of execute_task: the task, the tool calling chain and
\* the final answer are appended to the history, which is then trimmed.
\* last_call.msg counts the messages the trimming removed.
ExecuteTask(task, tool, final) ==
    LET chain == IF tool > 0
                 THEN <<[role |-> "assistant", len |-> 0],
                        [role |-> "tool", len |-> tool]>>
                 ELSE <<>>
        new_messages == <<[role |-> "user", len |-> task]>> \o chain
        kept == [i \in 1..Len(new_messages) |-> Retained(new_messages[i])]
        answer == IF final > 0 THEN <<[role |-> "assistant", len |-> final]>>
                  ELSE <<>>
        appended == conversation_history \o kept \o answer
    IN
    /\ conversation_history' = TrimConversationHistory(appended)
    /\ last_call' = [NoCall EXCEPT !.op = "execute_task",
                                   !.msg = Len(appended) - Len(conversation_history')]
    /\ DirectFrame

\* DirectAgent.cleanup
DirectCleanup ==
    /\ conversation_history # <<>>
    /\ conversation_history' = <<>>
    /\ last_call' = NoCall
    /\ DirectFrame

\* ---- execute_task step by step, for calls that overlap on one agent ----

TurnFrame ==
    UNCHANGED <<workerVars, relayVars, queueVars, masterVars, boundVars,
                execVars, ack_text_since, subscribers, last_broadcast,
                managerVars, routeVars, registryVars, httpVars, last_call>>

SystemPrompt == [role |-> "system", len |-> 0, turn |-> ""]

\* Up to the first call of the LLM: messages is the system prompt, the
\* history as it is now, and the task
TurnStart(t, task) ==
    /\ turns[t].pc = "idle"
    /\ LET user == [role |-> "user", len |-> task, turn |-> t] IN
       turns' = [turns EXCEPT ![t] =
                    [pc |-> "tools",
                     messages |-> <<SystemPrompt>> \o conversation_history \o <<user>>,
                     produced |-> <<user>>]]
    /\ UNCHANGED conversation_history
    /\ TurnFrame

\* A round of the tool calling loop: the assistant's tool_calls message and
\* the tool's result are appended to messages
TurnToolRound(t, tool) ==
    /\ turns[t].pc = "tools"
    /\ LET chain == <<[role |-> "assistant", len |-> 0, turn |-> t],
                      [role |-> "tool", len |-> tool, turn |-> t]>> IN
       turns' = [turns EXCEPT ![t] =
                    [pc |-> "final",
                     messages |-> turns[t].messages \o chain,
                     produced |-> turns[t].produced \o chain]]
    /\ UNCHANGED conversation_history
    /\ TurnFrame

\* history_start_idx, read when the final answer has been streamed
HistoryStartIdx(t) == 1 + Len(conversation_history)

\* messages[history_start_idx:]
NewMessages(t) ==
    LET ms == turns[t].messages
        idx == HistoryStartIdx(t)
    IN  IF idx >= Len(ms) THEN <<>> ELSE SubSeq(ms, idx + 1, Len(ms))

\* The final answer has been streamed: the update of the history
TurnFinish(t, final) ==
    /\ turns[t].pc \in {"tools", "final"}
    /\ LET new_messages == NewMessages(t)
           kept == [i \in 1..Len(new_messages) |-> Retained(new_messages[i])]
           answer == IF final > 0
                     THEN <<[role |-> "assistant", len |-> final, turn |-> t]>>
                     ELSE <<>>
       IN  /\ conversation_history' =
                  TrimConversationHistory(conversation_history \o kept \o answer)
           /\ turns' = [turns EXCEPT ![t] =
                           [pc |-> "done",
                            messages |-> <<>>,
                            produced |-> turns[t].produced \o answer]]
    /\ TurnFrame

\* Lengths of the tool results and of the final answers of these calls
TurnToolLens == {200, 2000}
TurnFinalLens == {0, 200}

NextTurns ==
    \E t \in TurnIds :
       \/ \E task \in TaskLens : TurnStart(t, task)
       \/ \E tool \in TurnToolLens : TurnToolRound(t, tool)
       \/ \E final \in TurnFinalLens : TurnFinish(t, final)

NextDirect ==
    \/ \E task \in TaskLens, tool \in ToolLens, final \in FinalLens :
          ExecuteTask(task, tool, final)
    \/ DirectCleanup

SpecDirect == InitSession /\ [][NextDirect]_vars

SpecRequest == InitSession /\ [][NextRequest]_vars

\* Calls of execute_task on the DirectAgent of one session, in any
\* interleaving of their steps
SpecTurns == InitSession /\ [][NextTurns]_vars

\* ---- Two spawned workers, one of them running, under the intervention
\* ---- interface ----
InitIntervention ==
    /\ InitWorkers([w \in Agents |-> IF w = "w1" THEN HumanMaxIter ELSE 1],
                   "pending")
    /\ InitCoordinator
    /\ InitQueues
    /\ InitRun
    /\ agent_callbacks = <<"w1", "w2">>
    /\ agent_intervention_handlers = {"w1", "w2"}
    /\ active_subagents = {"w1", "w2"}

\* The answer of the LLM in these runs: a text with a completion marker
HumanTexts == {Text(TRUE, FALSE, FALSE, 400, FALSE)}

\* The interventions given to apply_intervention
AppliedInterventions ==
    {Intervention("inject", "all", "", <<>>, DefaultPriority),
     Intervention("inject", "broadcast", "", <<>>, DefaultPriority),
     Intervention("inject", "single", "w1", <<>>, DefaultPriority)}

\* The first worker's task is running; the second worker's has not started
SomeRunning == Running("w1")

NextIntervention ==
    \/ RunStreamStart("w1")
    \/ LoopTop("w1")
    \/ SleepWake("w1")
    \/ LLMChunk("w1")
    \/ \E t \in HumanTexts : LLMFinal("w1", t)
    \/ CompletionCheck("w1")
    \/ SomeRunning /\ ~paused["w1"] /\ PauseAgent("w1", FALSE)
    \/ SomeRunning /\ paused["w1"] /\ ResumeAgent("w1", TRUE)
    \/ SomeRunning /\ InjectToAgent("w1", TRUE, DefaultPriority)
    \/ SomeRunning /\ AdjustAgent("w2", FALSE)
    \/ SomeRunning /\ \E force_action \in BOOLEAN :
                         BroadcastToAllAgents(force_action, DefaultPriority)
    \/ SomeRunning /\ \E iv \in AppliedInterventions :
                         \E b \in BOOLEAN : ApplyIntervention(iv, b)
    \/ GetPendingRelayEvents

SpecIntervention == InitIntervention /\ [][NextIntervention]_vars

\* ---- A run of execute_task during which the operator injects information
\* ---- into the first worker once; every worker has one iteration ----
InitNotify ==
    /\ InitWorkers([w \in Agents |-> 1], "new")
    /\ InitCoordinator
    /\ InitQueues
    /\ InitRun
    /\ agent_callbacks = <<>>
    /\ agent_intervention_handlers = {}
    /\ active_subagents = {}

NextNotify ==
    \/ ExecuteTaskStart
    \/ EmergeRolesPlan
    \/ SpawnSubagents
    \/ CreateTasks
    \/ Stage1
    \/ Stage2
    \/ Stage3
    \/ WaitReturn
    \/ \E g \in {"priority", "normal"} : ProcessDone(g)
    \/ CancelPending
    \/ Gather
    \/ IntegrateResults(TRUE)
    \/ \E w \in PlanAgents :
          \/ RunStreamStart(w)
          \/ LoopTop(w)
          \/ LLMChunk(w)
          \/ \E t \in HumanTexts : LLMFinal(w, t)
          \/ CompletionCheck(w)
    \/ message_history = <<>> /\ InjectToAgent("w1", TRUE, DefaultPriority)
    \/ GetPendingRelayEvents

SpecNotify == InitNotify /\ [][NextNotify]_vars

-----------------------------------------------------------------------------
\* Properties of one worker's run_stream (SpecWorker)

\* The four blocking conditions of the completion decision
QueuedHighPriorityIntervention(w) ==
    \E i \in 1..Len(relay_inbox[w]) :
        /\ IsIntervention(relay_inbox[w][i])
        /\ msgs[relay_inbox[w][i]].priority >= HighPriority
QueuedInjectOrAdjust(w) ==
    \E i \in 1..Len(relay_inbox[w]) :
        /\ IsIntervention(relay_inbox[w][i])
        /\ msgs[relay_inbox[w][i]].itype \in {"inject", "adjust"}
Blocking(w) ==
    \/ QueuedHighPriorityIntervention(w)
    \/ pending_acknowledgements[w] # <<>>
    \/ PendingSummary(w).requires_response
    \/ QueuedInjectOrAdjust(w)

QueuedImportant(w) ==
    \E i \in 1..Len(relay_inbox[w]) :
        msgs[relay_inbox[w][i]].importance >= HighImportance

Completes(w) == status[w] # "completed" /\ status'[w] = "completed"

\* The last status run_stream yielded for w (nothing takes events off the
\* queue in SpecWorker)
StatusEvents(w) ==
    SelectSeq(priority_queue, LAMBDA e : e.agent = w /\ e.type = "status")
LastReported(w) ==
    IF StatusEvents(w) = <<>> THEN "none"
    ELSE StatusEvents(w)[Len(StatusEvents(w))].status

C2_Original ==
    (/\ wpc["w1"] = "done"
     /\ cancelled["w1"]
     /\ ~error["w1"]
     /\ final_result["w1"] = NoResult)
    => (status["w1"] = "cancelled" /\ LastReported("w1") = "cancelled")

\* C8 as claimed: a worker that used up max_iterations without a completion
\* marker ends `completed` with final_result equal to its last text.
C8_Original ==
    (/\ wpc["w1"] = "done"
     /\ ~cancelled["w1"]
     /\ ~error["w1"]
     /\ iterations["w1"] = max_iterations["w1"]
     /\ ~full_response["w1"].marker)
    => (/\ status["w1"] = "completed"
        /\ final_result["w1"] = <<"whole", full_response["w1"]>>)

C10_Original ==
    [][(/\ wpc["w1"] = "check"
        /\ full_response["w1"].marker
        /\ ~Blocking("w1"))
          => status'["w1"] = "completed"]_vars

\* Every queued message is an ordinary one of importance below 0.8
OrdinaryOnly(w) ==
    \A i \in 1..Len(relay_inbox[w]) :
        /\ ~IsIntervention(relay_inbox[w][i])
        /\ msgs[relay_inbox[w][i]].importance < HighImportance

\* C10 (amended): a final text with a completion marker completes the worker
\* in that iteration exactly when no blocking condition holds and either
\* nothing is queued, or every queued message is an ordinary one of
\* importance below 0.8 and the text has an acknowledgement phrase or is
\* longer than 500 characters with at most 2 messages queued.  A queued
\* ordinary message of importance >= 0.8 blocks by itself.
C10_MarkerCompletion ==
    [][(wpc["w1"] = "check" /\ full_response["w1"].marker)
          => (status'["w1"] = "completed"
                <=> /\ ~Blocking("w1")
                    /\ OrdinaryOnly("w1")
                    /\ \/ relay_inbox["w1"] = <<>>
                       \/ full_response["w1"].ack
                       \/ /\ Len(relay_inbox["w1"]) <= LowCount
                          /\ full_response["w1"].len > CompleteLen)]_vars

\* C10 witness: the worker completed on a long text with a marker and no
\* acknowledgement phrase while an ordinary message was still queued.
C10_Witness ==
    /\ wpc["w1"] = "done"
    /\ status["w1"] = "completed"
    /\ relay_inbox["w1"] # <<>>
    /\ full_response["w1"].marker
    /\ ~full_response["w1"].ack
    /\ full_response["w1"].len > CompleteLen

-----------------------------------------------------------------------------
\* Properties of a run of execute_task (SpecMaster)

\* The events of worker w on the stream whose type is in types
WorkerView(w, types) ==
    SelectSeq(stream, LAMBDA e : e.agent = w /\ e.type \in types)
InEmissionOrder(v) ==
    \A i, j \in 1..Len(v) : i < j => v[i].n < v[j].n
STATUS_TYPES == {"agent_status_changed"}
NORMAL_TYPES == {"agent_progress", "agent_thinking", "relay_message_sent",
                 "tool_call_start", "tool_call_result"}
Ended == mpc \in {"finished", "error", "returned"}

C4_Original ==
    Ended => /\ stream[1].type = "run_started"
             /\ stream[Len(stream)].type \in {"run_finished", "run_error"}

\* C5 as claimed: when the planner gives no usable plan the run emits
\* run_error and the session's status becomes `error`.
C5_Original ==
    (mode = "emergent" /\ ~plan /\ Ended)
      => /\ \E i \in 1..Len(stream) : stream[i].type = "run_error"
         /\ session_status = "error"

\* C6 as claimed: every terminal transition of a worker (completed, failed,
\* cancelled) is forwarded on the stream as agent_status_changed.
C6_Original ==
    mpc = "finished" =>
      \A w \in PlanAgents :
         status[w] \in {"completed", "failed", "cancelled"}
           => \E i \in 1..Len(stream) :
                 /\ stream[i].type = "agent_status_changed"
                 /\ stream[i].agent = w
                 /\ stream[i].status = status[w]

-----------------------------------------------------------------------------
\* Properties of the relay broadcast (SpecRelay)

Occurrences(q, x) == Cardinality({i \in 1..Len(q) : q[i] = x})

\* The workers a broadcast with the record r has been delivered to
Receivers(r) ==
    {w \in Agents : Occurrences(relay_messages_received[w], r.id) > 0}

\* C7: a message broadcast with empty target_ids is delivered exactly once
\* to every worker registered at the time of the broadcast except the
\* sender, and to nobody else: N - 1 deliveries for a registered sender
\* among N registered workers.
C7_BroadcastOnce ==
    \A k \in 1..Len(broadcast_log) :
        LET r == broadcast_log[k] IN
        r.empty =>
          /\ \A w \in Agents :
                /\ Occurrences(relay_messages_received[w], r.id) =
                      (IF InSeq(w, r.registered) /\ w # r.src THEN 1 ELSE 0)
                /\ Occurrences(relay_inbox[w], r.id) <= 1
          /\ Cardinality(Receivers(r)) =
                Len(r.registered) - (IF InSeq(r.src, r.registered) THEN 1 ELSE 0)

\* C7 witness: a worker's message was broadcast while three workers were
\* registered and reached the two others.
C7_Witness ==
    \E k \in 1..Len(broadcast_log) :
        LET r == broadcast_log[k] IN
        /\ r.empty
        /\ r.src = "w1"
        /\ Len(r.registered) = 3
        /\ Receivers(r) = {"w2", "w3"}

-----------------------------------------------------------------------------
\* Properties of the blocked completion (SpecWorker)

\* The worker's text carries a completion marker and the pending items
\* forbid completion
MarkerBlocked(w) ==
    /\ wpc[w] = "check"
    /\ full_response[w].marker
    /\ HasPending(w)
    /\ ~CanCompleteWithPendingMessages(full_response[w], PendingSummary(w))

\* C11 as claimed: when a text with a completion marker is blocked by
\* pending items, the step after it appends the "completion blocked"
\* prompt to the worker's message log and the worker goes back to the top
\* of its loop.
C11_Original ==
    [][\A w \in Agents :
          MarkerBlocked(w) =>
             /\ wpc'[w] = "loop"
             /\ Len(messages'[w]) = Len(messages[w]) + 1
             /\ messages'[w][Len(messages'[w])] = <<"pending_prompt", 0>>]_vars

-----------------------------------------------------------------------------
\* Properties of the relay station of a run (SpecMaster)

\* The workers of the run have been started and the merge loop is running
WorkersRunning ==
    mode = "emergent" /\ mpc \in {"stage1", "stage2", "wait", "woken", "gather"}

\* The position of the first event of the given type on the stream, 0 if
\* there is none
FirstOf(type) ==
    IF \E i \in 1..Len(stream) : stream[i].type = type
    THEN CHOOSE i \in 1..Len(stream) :
            /\ stream[i].type = type
            /\ \A j \in 1..(i - 1) : stream[j].type # type
    ELSE 0

\* C12 as claimed: while the workers run the coordinator has an active
\* station, the one the run opened; once the run has finished the stream
\* carries relay_station_closed, before run_finished.
C12_Original ==
    /\ WorkersRunning =>
          /\ active_station_id # 0
          /\ active_station_id \in 1..Len(stations)
          /\ stations[active_station_id].is_active
    /\ (mode = "emergent" /\ mpc = "finished") =>
          /\ FirstOf("relay_station_closed") > 0
          /\ FirstOf("relay_station_closed") < FirstOf("run_finished")

-----------------------------------------------------------------------------
\* Properties of the station operations (SpecStation)

\* C13: after any sequence of create_station, open_station and
\* close_station calls at most one station of the coordinator is active,
\* and an active station is the one active_station_id names.
C13_AtMostOneActive ==
    /\ Cardinality({i \in 1..Len(stations) : stations[i].is_active}) <= 1
    /\ \A i \in 1..Len(stations) :
          stations[i].is_active => active_station_id = i

\* C13 witness: a station is active after another one, opened before it,
\* was closed by the second open_station.
C13_Witness ==
    \E i, j \in 1..Len(stations) :
        /\ i # j
        /\ stations[i].is_active /\ active_station_id = i
        /\ stations[j].started /\ stations[j].completed /\ ~stations[j].is_active

-----------------------------------------------------------------------------
\* Properties of the session's subscribers (SpecSession)

\* The step is a broadcast_event call
BroadcastStep == last_broadcast'.n # last_broadcast.n

Full(x) == Len(x.q) >= QueueMaxSize

\* C20: a broadcast_event call is always possible and, for every subscriber
\* of the session, either its put_nowait raised and it is removed, or it
\* stays subscribed with its queue unchanged when the queue was full and
\* with the event appended otherwise; nobody else is added or removed.
C20_DropOnlyForFullSubscriber ==
    [][BroadcastStep =>
         /\ \A i \in 1..Len(subscribers) :
               LET x == subscribers[i] IN
               IF x.id \in last_broadcast'.raised
               THEN \A j \in 1..Len(subscribers') : subscribers'[j].id # x.id
               ELSE \E j \in 1..Len(subscribers') :
                       /\ subscribers'[j].id = x.id
                       /\ subscribers'[j].q =
                             IF Full(x) THEN x.q
                             ELSE Append(x.q, last_broadcast'.event)
         /\ Len(subscribers') =
               Len(subscribers) - Cardinality(last_broadcast'.raised)]_vars

\* C20 witness: after a broadcast of e2 one subscriber's full queue holds
\* only e1 (the event was dropped for it) while another subscriber, behind
\* it in the list, has e2 as its newest event.
C20_Witness ==
    /\ last_broadcast.n > 0
    /\ last_broadcast.event = "e2"
    /\ \E i, j \in 1..Len(subscribers) :
          /\ i < j
          /\ Full(subscribers[i])
          /\ \A k \in 1..Len(subscribers[i].q) : subscribers[i].q[k] = "e1"
          /\ subscribers[j].q # <<>>
          /\ subscribers[j].q[Len(subscribers[j].q)] = "e2"

-----------------------------------------------------------------------------
\* Properties of the intervention interface (SpecIntervention)

\* The positions of the effects of the given kind in the latest call
EffectsOf(call, kind) ==
    {i \in 1..Len(call.effects) : call.effects[i][1] = kind}

\* The step is a call of the intervention interface
CallStep == calls_left' = calls_left - 1

\* C14 as claimed: in a call with scope `all` every active worker ingests
\* the payload, and every ingestion comes before the first delivery of the
\* intervention's relay message to a worker.
C14_Original ==
    (last_call.scope = "all" /\ last_call.broadcast) =>
       /\ \A w \in active_subagents :
             \E i \in EffectsOf(last_call, "ingest") : last_call.effects[i][2] = w
       /\ \A i \in EffectsOf(last_call, "ingest") :
             \A j \in EffectsOf(last_call, "deliver") : i < j

\* C15 as claimed: a call with scope `broadcast` made through
\* apply_intervention or broadcast_to_all_agents writes no worker's message
\* log.
C15_Original ==
    [][(/\ CallStep
        /\ last_call'.op \in {"apply_intervention", "broadcast_to_all_agents"}
        /\ last_call'.scope = "broadcast")
          => messages' = messages]_vars

\* C16 as claimed: the relay message of an inject addressed to one worker
\* has exactly that worker as its target_agent_ids.
C16_Original ==
    (last_call.op = "inject_to_agent" /\ last_call.broadcast) =>
       /\ msgs[last_call.msg].type = "human_intervention"
       /\ msgs[last_call.msg].targets = <<last_call.agent>>

\* C18 as claimed: every call of the intervention interface, broadcast or
\* not, appends one intervention to the intervention history, and does so
\* before it invokes a worker's callback.
C18_Original ==
    [][CallStep =>
         /\ Len(intervention_history') = Len(intervention_history) + 1
         /\ \A i \in EffectsOf(last_call', "history") :
               \A j \in EffectsOf(last_call', "deliver") : i < j]_vars

\* A forced inject (scope `all`) has been made
ForcedInject ==
    \E k \in 1..Len(intervention_history) :
        /\ intervention_history[k].type = "inject"
        /\ intervention_history[k].scope = "all"

\* The message log of worker w carries the information of the k-th
\* intervention: as the directly injected message, or as the prompt
\* _process_relay_inbox built from the intervention's relay message
CarriesInfo(w, k) ==
    \/ InSeq(<<"inject", 0>>, messages[w])
    \/ InSeq(<<"intervention", k>>, messages[w])

\* C19: once a forced inject has been made, the message log of every active
\* worker that is at an LLM call carries the injected information, also
\* when the inject arrived before the worker's loop started.  (Every relay
\* message of these runs is an intervention's, so the k-th intervention of
\* the history has the k-th message.)
C19_ForcedInjectReachesLog ==
    \A k \in 1..Len(intervention_history) :
        (intervention_history[k].type = "inject"
           /\ intervention_history[k].scope = "all")
          => \A w \in active_subagents :
                wpc[w] \in {"llm", "stream"} => CarriesInfo(w, k)

\* C19 witness: broadcast_to_all_agents forced the inject before the first
\* worker's loop started; _init_messages dropped the injected message, and
\* at the worker's LLM call the log carries the information as the prompt
\* built from its inbox.
C19_Witness ==
    /\ ForcedInject
    /\ last_call.op = "broadcast_to_all_agents"
    /\ wpc["w1"] = "llm"
    /\ ~InSeq(<<"inject", 0>>, messages["w1"])
    /\ \E k \in 1..Len(intervention_history) :
          /\ intervention_history[k].scope = "all"
          /\ InSeq(<<"intervention", k>>, messages["w1"])

-----------------------------------------------------------------------------
\* Properties of the notification of an intervention (SpecNotify)

\* C17 as claimed: when an intervention was applied during a run, the
\* events sent to the session's subscribers include a relay_message_sent
\* event for its message, at the latest when the run has finished.
C17_Original ==
    (mpc = "finished" /\ message_history # <<>>) =>
       \E i \in 1..Len(stream) :
           /\ stream[i].type = "relay_message_sent"
           /\ stream[i].agent = "human"

-----------------------------------------------------------------------------
\* Properties of a run in which a worker fails (SpecMasterFair)

TerminalStatus == {"completed", "failed", "cancelled"}

\* The run of a plan is at, or past, its integration phase
Integrating == plan /\ mpc \in {"integrate", "finished", "error"}

-----------------------------------------------------------------------------
\* Properties of a worker's status (SpecWorker)

\* The edges of pending -> running <-> paused -> (completed | failed | cancelled)
StatusEdges ==
    {<<"pending", "running">>, <<"running", "paused">>, <<"paused", "running">>}
      \cup ({"running", "paused"} \X TerminalStatus)

\* C28 as claimed: a worker's status changes only along the edges of the
\* state machine, a terminal status never changes, and a worker that was
\* paused and resumed is running again when it goes on with an iteration.
C28_Original ==
    /\ [][\A w \in Agents :
             status'[w] # status[w] => <<status[w], status'[w]>> \in StatusEdges]_vars
    /\ [](\A w \in Agents :
             wpc[w] \in {"llm", "stream", "skill", "check"} => status[w] = "running")

-----------------------------------------------------------------------------
\* Properties of the route's fan-out (SpecRoute)

\* The orchestrator's events a subscriber's client has taken or still has
\* in its queue, in the order of arrival
Arrived(x) ==
    SelectSeq(received[x.id] \o x.q, LAMBDA e : e.type # "session_state_changed")

-----------------------------------------------------------------------------
\* Properties of the directory of sessions (SpecManager)

\* The step is a request that starts a run on session s
StartsRun(s) == running[s] = 0 /\ running'[s] # 0

\* The step is the last event of the run on session s
EndsRun(s) == running[s] # 0 /\ running'[s] = 0

\* The step takes session s out of the memory
Closes(s) == sessions[s].present /\ ~sessions'[s].present

\* C23 as claimed: a request with a new task for a session whose status is
\* completed, error or cancelled disposes the session's orchestrator,
\* installs one that did not exist before, and leaves the status active.
C23_Original ==
    [][\A s \in SessionIds :
          (/\ StartsRun(s)
           /\ sessions[s].present
           /\ agents[s] # 0
           /\ instances[agents[s]].kind = "master"
           /\ sessions'[s].mode # "direct"
           /\ sessions[s].status \in {"completed", "error", "cancelled"})
            => /\ agents'[s] = Len(instances) + 1
               /\ agents[s] # 0 => instances'[agents[s]].cleaned
               /\ sessions'[s].status = "active"]_vars

\* C24: the request that starts a run, a followup included, leaves the
\* session's subscribers as they are; and the last event of a run, on
\* whichever orchestrator it runs, is put on the queue of every subscriber
\* of the session whose queue is not full.
C24_SubscribersOutliveTheMaster ==
    [][\A s \in SessionIds :
          /\ StartsRun(s) => session_subscribers'[s] = session_subscribers[s]
          /\ EndsRun(s) =>
                /\ Len(session_subscribers'[s]) = Len(session_subscribers[s])
                /\ \A i \in 1..Len(session_subscribers[s]) :
                      LET q == session_subscribers[s][i].q IN
                      Len(q) < QueueMaxSize =>
                         session_subscribers'[s][i].q =
                            Append(q, [session |-> s, inst |-> running[s]])]_vars

\* C24 witness: after a followup replaced the Master of a session, a
\* subscriber's queue holds an event of the run on the disposed Master and
\* behind it an event of the run on the new one.
C24_Witness ==
    \E s \in SessionIds :
        /\ session_subscribers[s] # <<>>
        /\ LET q == session_subscribers[s][1].q IN
           /\ Len(q) = 2
           /\ q[1].inst # q[2].inst
           /\ instances[q[1].inst].cleaned
           /\ agents[s] = q[2].inst
           /\ instances[q[2].inst].kind = "master"

\* C25 as claimed: when a session is closed its orchestrator is disposed
\* (no workers, no intervention history) and removed, its subscriber list
\* is removed, and its record stays in the repository.
C25_Original ==
    [][\A s \in SessionIds :
          Closes(s) =>
             /\ agents'[s] = 0
             /\ agents[s] # 0 =>
                   /\ instances'[agents[s]].workers = {}
                   /\ instances'[agents[s]].history = 0
             /\ session_subscribers'[s] = <<>>
             /\ db'[s].status # "none"]_vars

\* C26 as claimed: the cleanup of expired sessions leaves every session
\* whose last activity is older than the timeout with the status expired
\* and without orchestrator, and every other session as it was.
C26_Original ==
    [][last_call'.op = "cleanup_expired_sessions" =>
          \A s \in SessionIds :
             IF sessions[s].present /\ sessions[s].stale
             THEN /\ db'[s].status = "expired"
                  /\ agents'[s] = 0
                  /\ agents[s] # 0 => instances'[agents[s]].cleaned
             ELSE /\ sessions'[s] = sessions[s]
                  /\ agents'[s] = agents[s]
                  /\ db'[s] = db[s]]_vars

-----------------------------------------------------------------------------
\* Properties of two sessions side by side (SpecIsolation)

\* C30: every event on a subscriber's queue is an event of the session
\* subscribed to; the orchestrator of a session, and the one its run
\* executes on, were created for that session; and an intervention
\* requested for a session changes no orchestrator of another session.
C30_SessionsAreIsolated ==
    /\ [](\A s \in SessionIds :
            /\ \A i \in 1..Len(session_subscribers[s]) :
                  LET q == session_subscribers[s][i].q IN
                  \A k \in 1..Len(q) : q[k].session = s
            /\ agents[s] # 0 => instances[agents[s]].session = s
            /\ running[s] # 0 => instances[running[s]].session = s)
    /\ [][last_call'.op = "apply_intervention" =>
            \A i \in 1..Len(instances) :
               instances'[i] # instances[i] => instances[i].session = last_call'.agent]_vars

\* C30 witness: both sessions have an orchestrator with workers and a
\* subscriber holding an event; an intervention reached the workers of
\* the first session and none those of the second.
C30_Witness ==
    /\ \A s \in SessionIds :
          /\ agents[s] # 0
          /\ instances[agents[s]].workers # {}
          /\ session_subscribers[s] # <<>>
          /\ session_subscribers[s][1].q # <<>>
    /\ instances[agents["s1"]].history = 1
    /\ instances[agents["s2"]].history = 0

-----------------------------------------------------------------------------
\* Properties of the direct mode's history (SpecDirect)

\* C29 as claimed: after every completed turn the history holds at most 6
\* user messages, and at most 24000 characters unless fewer than 2 rounds
\* remain.
C29_Original ==
    /\ Cardinality(RoundStarts(conversation_history)) <= MaxRounds
    /\ \/ TotalChars(conversation_history) <= MaxHistoryChars
       \/ Cardinality(RoundStarts(conversation_history)) < 2

\* C29: after every completed turn the history holds at most 6 user
\* messages, and at most 24000 characters unless no more than 2 rounds
\* remain; every tool result in it is at most 1500 characters and the notice
\* long.
C29_HistoryIsTrimmed ==
    /\ Cardinality(RoundStarts(conversation_history)) <= MaxRounds
    /\ \/ TotalChars(conversation_history) <= MaxHistoryChars
       \/ Cardinality(RoundStarts(conversation_history)) <= MinRounds
    /\ \A i \in 1..Len(conversation_history) :
          conversation_history[i].role = "tool" =>
             conversation_history[i].len <= ToolResultCut + CutNoticeLen

\* C29 witness: a turn whose trimming removed messages has left two rounds
\* with a cut tool result, and they are over the budget.
C29_Witness ==
    /\ last_call.op = "execute_task"
    /\ last_call.msg > 0
    /\ Cardinality(RoundStarts(conversation_history)) = MinRounds
    /\ TotalChars(conversation_history) > MaxHistoryChars
    /\ \E i \in 1..Len(conversation_history) :
          /\ conversation_history[i].role = "tool"
          /\ conversation_history[i].len = ToolResultCut + CutNoticeLen

-----------------------------------------------------------------------------
\* Properties of explicit target lists (SpecTargets)

\* The explicit list of the message of a broadcast_message call
Listed(r) == msgs[r.id].targets

\* C31 as claimed: a broadcast with an explicit list delivers exactly one
\* copy to each listed id, as many deliveries as the list is long, and none
\* to a worker that is not listed.
C31_Original ==
    \A k \in 1..Len(broadcast_log) :
        LET r == broadcast_log[k] IN
        ~r.empty =>
          /\ \A w \in Agents :
                Occurrences(relay_messages_received[w], r.id) =
                   (IF InSeq(w, Listed(r)) THEN 1 ELSE 0)
          /\ Len(Listed(r)) =
                Occurrences(relay_messages_received["w1"], r.id)
                + Occurrences(relay_messages_received["w2"], r.id)
                + Occurrences(relay_messages_received["w3"], r.id)

\* C31: a broadcast with an explicit list delivers one copy for every
\* entry of the list whose id is registered at the time of the broadcast,
\* the sender's own id included, and nothing to an id that is not listed
\* or not registered.
C31_OneCopyPerRegisteredEntry ==
    \A k \in 1..Len(broadcast_log) :
        LET r == broadcast_log[k] IN
        ~r.empty =>
           \A w \in Agents :
              Occurrences(relay_messages_received[w], r.id) =
                 (IF InSeq(w, r.registered) THEN Occurrences(Listed(r), w) ELSE 0)

\* C31 witness: a message listing two different registered workers, while
\* three are registered, reached exactly those two.
C31_Witness ==
    \E k \in 1..Len(broadcast_log) :
        LET r == broadcast_log[k] IN
        /\ ~r.empty
        /\ Len(Listed(r)) = 2
        /\ Listed(r)[1] # Listed(r)[2]
        /\ Len(r.registered) = 3
        /\ Receivers(r) = {Listed(r)[1], Listed(r)[2]}
        /\ \A w \in Receivers(r) : Occurrences(relay_messages_received[w], r.id) = 1

-----------------------------------------------------------------------------
\* Properties of broadcasts with failing callbacks (SpecFailures)

\* The workers whose callback raised in the latest broadcast
Raised(call) == {call.effects[i][2] : i \in 1..Len(call.effects)}

\* The registered workers the broadcast of the call c addresses, given the
\* message heap after it
Addressed(c, heap) ==
    LET registered == {agent_callbacks[i] : i \in 1..Len(agent_callbacks)}
        listed == {heap[c.msg].targets[i] : i \in 1..Len(heap[c.msg].targets)}
    IN  IF heap[c.msg].targets # <<>> THEN listed \cap registered
        ELSE IF c.op = "broadcast_message" THEN registered \ {c.agent}
        ELSE registered

\* C32: when callbacks of workers raise during a broadcast of a message or
\* of an intervention, every other addressed worker still receives the
\* message once, the message is in the history, and the call reaches its
\* end, where the Master is notified of the broadcast.
C32_RaisingCallbackIsContained ==
    [][(/\ last_call'.op \in {"broadcast_message", "broadcast_intervention"}
        /\ Len(msgs') > Len(msgs))
          => LET m == last_call'.msg IN
             /\ \A w \in Addressed(last_call', msgs') \ Raised(last_call') :
                   Occurrences(relay_messages_received'[w], m) = 1
             /\ InSeq(m, message_history')
             /\ InSeq(m, pending_relay_events')]_vars

\* C32 witness: the callback of the first registered worker raised during
\* a broadcast and the second registered worker received the message.
C32_Witness ==
    /\ last_call.op \in {"broadcast_message", "broadcast_intervention"}
    /\ Len(agent_callbacks) >= 2
    /\ agent_callbacks[1] \in Raised(last_call)
    /\ agent_callbacks[2] \notin Raised(last_call)
    /\ Occurrences(relay_messages_received[agent_callbacks[1]], last_call.msg) = 0
    /\ Occurrences(relay_messages_received[agent_callbacks[2]], last_call.msg) = 1
    /\ InSeq(last_call.msg, message_history)

-----------------------------------------------------------------------------
\* Properties of the registry's callbacks (SpecRegistry)

\* C33 as claimed: after an id is registered again, a broadcast of a
\* message or of an intervention calls no callback of an earlier
\* registration of the id, whatever the new registration supplied.
C33_Original ==
    \A c \in callbacks_called : c.registration = registrations[c.agent]

-----------------------------------------------------------------------------
\* Properties of the route POST /intervention (SpecRequest)

\* C34 as claimed: a request of type broadcast for a session in memory is
\* accepted when its payload has a message, and the message is broadcast
\* to all workers without forcing it; it is answered 400 only when the
\* payload has no message.
C34_Original ==
    (request.intervention_type = "broadcast" /\ request.found) =>
       IF "message" \in request.payload
       THEN /\ http_response.status = 200
            /\ http_response.call = "broadcast_to_all_agents"
            /\ ~http_response.force_action
       ELSE http_response.status = 400

-----------------------------------------------------------------------------
\* Properties of the merge loop's channels (SpecMaster)

\* The status st of worker w has been forwarded
StatusForwarded(w, st) ==
    \E i \in 1..Len(stream) :
        /\ stream[i].type = "agent_status_changed"
        /\ stream[i].agent = w
        /\ stream[i].status = st

\* C35 as claimed: when the parallel execution is left and the integration
\* starts, every worker task is done, both channels are empty, and every
\* event a worker put on a channel has been taken and processed: the
\* status running each worker starts with, and the status completed of a
\* worker that completed, have been forwarded.
C35_Original ==
    Integrating =>
       /\ AllTasksDone
       /\ priority_queue = <<>>
       /\ normal_queue = <<>>
       /\ \A w \in PlanAgents :
             /\ StatusForwarded(w, "running")
             /\ status[w] = "completed" => StatusForwarded(w, "completed")

\* The step processes the event e as the merge loop does: it is counted,
\* and forwarded when it has an AG-UI form
Processes(e) ==
    /\ completed_count' = completed_count + Counted(e)
    /\ e.type \in CONVERTED => stream' = Append(stream, ConvertEvent(e))

\* C36 as claimed: when the merge loop, after its wait has returned, lets
\* go of a channel read that has taken an event, it processes the event,
\* also when the read completed only after the wait returned.
C36_Original ==
    [][/\ (mpc = "woken" /\ priority_wait.st = "done" /\ priority_wait' = Idle)
            => Processes(priority_wait.item)
       /\ (mpc = "woken" /\ normal_wait.st = "done" /\ normal_wait' = Idle)
            => Processes(normal_wait.item)]_vars

-----------------------------------------------------------------------------
\* Properties of overlapping runs on one Master (SpecOverlap)

\* C37 as claimed: a worker of the Master whose task has not ended stays
\* registered with the coordinator, for relay messages and for
\* interventions, also when a second run is spawned on the Master.
C37_Original ==
    \A w \in active_subagents :
        wpc[w] # "done" =>
           /\ InSeq(w, agent_callbacks)
           /\ w \in agent_intervention_handlers

-----------------------------------------------------------------------------
\* Properties of the heartbeat (SpecHeartbeat)

\* C38 as claimed: the timeout of the wait for the next event only makes
\* the route send a heartbeat: execute_task stays where it is, and when
\* the stream of a run with a plan is over its last event is run_finished
\* or run_error.
C38_Original ==
    /\ [][last_call'.op = "heartbeat" => mpc' = mpc]_vars
    /\ []((plan /\ mpc \in {"finished", "error", "cancelled"}) =>
            stream[Len(stream)].type \in {"run_finished", "run_error"})

-----------------------------------------------------------------------------
\* Properties of a run whose workers are stopped (SpecStoppedRoute)

\* C39 as claimed: if the loop of every worker of the plan ends, whatever
\* the status it ends with, the run emits run_finished or run_error.
C39_Original ==
    (\A w \in PlanAgents : <>[](wpc[w] = "done"))
        => <>(/\ mpc \in {"finished", "error"}
              /\ stream[Len(stream)].type \in {"run_finished", "run_error"})

-----------------------------------------------------------------------------
\* Properties of overlapping direct-mode turns (SpecTurns)

\* The messages of turn t as the history keeps them
Expected(t) ==
    [i \in 1..Len(turns[t].produced) |-> Retained(turns[t].produced[i])]

\* The positions of the history at which the messages of turn t stand, in
\* order and next to each other
TurnOccurrences(t) ==
    {i \in 0..(Len(conversation_history) - Len(Expected(t))) :
        SubSeq(conversation_history, i + 1, i + Len(Expected(t))) = Expected(t)}

\* C40 as claimed: when the turns on a session are over, the history holds
\* the messages of each turn (its user message, its tool calling chain and
\* its final answer) exactly once and together, and nothing else.
C40_Original ==
    (\A t \in TurnIds : turns[t].pc = "done") =>
        /\ \A t \in TurnIds : Cardinality(TurnOccurrences(t)) = 1
        /\ \A i \in 1..Len(conversation_history) :
              Cardinality({j \in 1..Len(conversation_history) :
                              conversation_history[j] = conversation_history[i]}) = 1
        /\ Len(conversation_history) =
              Len(turns["t1"].produced) + Len(turns["t2"].produced)

=============================================================================
